---- MODULE Spec2Model ----
(***************************************************************************)
(* Model of the JMeter report analyzer: src/utils/table_parsing.py         *)
(* (extraction and normalisation of statistics.json / dashboard.js) and    *)
(* src/comparison/*.py (side-by-side comparison of parsed tables).         *)
(*                                                                         *)
(* Conventions                                                             *)
(*  - A label (Python str) is a sequence of character codes, so that       *)
(*    startswith, lower() and string comparison are computed.              *)
(*  - A float is an integer number of thousandths (1.234 is 1234);         *)
(*    round(x, 2) therefore maps to a multiple of 10.                      *)
(*  - A JSON object / Python dict that is iterated is a sequence of        *)
(*    [label, data] entries in insertion order; a record of fields is a    *)
(*    function whose DOMAIN is the set of keys present.                    *)
(*  - A pandas table is [columns, rows]; a row is a function on the        *)
(*    columns that have a value, a column outside its DOMAIN is NaN.       *)
(***************************************************************************)
EXTENDS Integers, Sequences, FiniteSets, TLC

VARIABLES
    statsFile,      \* statistics.json at the located path: "absent" or the payload
    dashboardJs,    \* content/js/dashboard.js next to it: "absent" or its tables
    phase,          \* position of the caller: "ready", "parsed", "compared", "extracted"
    outcome,        \* how the last operation ended: "none", "returned" or "raised"
    exc,            \* the exception that escaped the last operation, "" if none
    tables,         \* the table set returned by the last parse_jmeter_tables
    firstTables,    \* the table set of the parse made before the Total entry was removed,
                    \* or before the report was parsed again
    firstOutcome,   \* the outcome of that earlier parse
    totalStats,     \* what calculate_total_statistics returned or raised
    removed,        \* the Total entry removed from statsFile, <<>> while none was
    jsSource,       \* JavaScript text handed to extract_table_data
    tableId,        \* table identifier handed to extract_table_data
    extracted,      \* value returned by extract_table_data
    cmpInput,       \* arguments of the comparison operation
    cmpKind,        \* which comparison operation ran last
    cmpResult,      \* table returned by the comparison operation
    uploads,        \* the zip archives handed to extract_zip, in the order of the calls
    persistent,     \* temp_jmeter_reports/persistent: the files below it, by directory
    parsedUpload,   \* the upload whose index path the latest parse_jmeter_tables was given
    uploaded_reports,   \* the file uploader's current list
    state_report_names,       \* st.session_state['report_names']
    state_names_confirmed,    \* st.session_state['names_confirmed']
    confirmedFor,   \* the uploaded list for which state_report_names was confirmed
    comparison,     \* the reports and the names the latest "Compare Reports" run used
    tables_data,    \* dictionary returned by extract_js_data
    literal,        \* JavaScript object literal handed to clean_json_string
    cleaned         \* text returned by clean_json_string

vars == <<statsFile, dashboardJs, phase, outcome, exc, tables, firstTables,
          firstOutcome, totalStats, removed, jsSource, tableId, extracted, cmpInput, cmpKind, cmpResult,
          uploads, persistent, parsedUpload, uploaded_reports, state_report_names, state_names_confirmed,
          confirmedFor, comparison, tables_data, literal, cleaned>>

parseVars == <<statsFile, dashboardJs, tables, firstTables, firstOutcome, totalStats, removed>>
extractVars == <<jsSource, tableId, extracted>>
compareVars == <<cmpInput, cmpKind, cmpResult>>
reportVars == <<uploads, persistent, parsedUpload>>
uiVars == <<uploaded_reports, state_report_names, state_names_confirmed, confirmedFor, comparison>>
cleanVars == <<literal, cleaned>>
appVars == <<reportVars, uiVars, tables_data, cleanVars>>

\* nothing uploaded, nothing extracted, the session state as app.py creates it
IdleReports == uploads = <<>> /\ persistent = <<>> /\ parsedUpload = 0
IdleUi ==
    /\ uploaded_reports = <<>> /\ state_report_names = <<>> /\ state_names_confirmed = FALSE
    /\ confirmedFor = <<>> /\ comparison = <<>>
IdleJsData == tables_data = <<>>
IdleClean == literal = <<>> /\ cleaned = <<>>
InitIdle == IdleReports /\ IdleUi /\ IdleJsData /\ IdleClean

----------------------------------------------------------------------------
(* Bounds *)

MaxEntries == 2

----------------------------------------------------------------------------
(* Strings as sequences of character codes *)

Str_Total == <<84, 111, 116, 97, 108>>              \* "Total"
Str_total == <<116, 111, 116, 97, 108>>             \* "total"
Str_GET_a == <<71, 69, 84, 32, 47, 97>>             \* "GET /a"
Str_DELETE_c == <<68, 69, 76, 69, 84, 69, 32, 47, 99>>  \* "DELETE /c"
Str_Login == <<76, 111, 103, 105, 110>>             \* "Login"
Str_GET == <<71, 69, 84>>                           \* "GET"

\* str.lower() on ASCII
lower(s) == [i \in 1..Len(s) |-> IF s[i] >= 65 /\ s[i] <= 90 THEN s[i] + 32 ELSE s[i]]

\* str.startswith(prefix)
StartsWith(s, p) == Len(s) >= Len(p) /\ SubSeq(s, 1, Len(p)) = p

\* Python's str "<": lexicographic by code point
RECURSIVE StrLess(_, _)
StrLess(a, b) ==
    IF Len(b) = 0 THEN FALSE
    ELSE IF Len(a) = 0 THEN TRUE
    ELSE IF a[1] < b[1] THEN TRUE
    ELSE IF a[1] > b[1] THEN FALSE
    ELSE StrLess(Tail(a), Tail(b))

----------------------------------------------------------------------------
(* Module-level constants of table_parsing.py *)

REPORT_TABLES == <<"endpoint_stats", "aggregate_summary", "errors">>

COLUMN_MAPPING == <<
    <<"Label", "Label">>,
    <<"sampleCount", "#Samples">>,
    <<"errorCount", "FAIL">>,
    <<"errorPct", "Error %">>,
    <<"meanResTime", "Average">>,
    <<"minResTime", "Min">>,
    <<"maxResTime", "Max">>,
    <<"medianResTime", "Median">>,
    <<"pct1ResTime", "90th pct">>,
    <<"pct2ResTime", "95th pct">>,
    <<"pct3ResTime", "99th pct">>,
    <<"throughput", "Transactions/s">>,
    <<"receivedKBytesPerSec", "Received">>,
    <<"sentKBytesPerSec", "Sent">> >>

COLUMN_ORDER == <<"Label", "#Samples", "FAIL", "Error %", "Average", "Min", "Max",
                  "Median", "90th pct", "95th pct", "99th pct", "Transactions/s",
                  "Received", "Sent">>

----------------------------------------------------------------------------
(* Python helpers *)

Range(s) == {s[i] : i \in 1..Len(s)}

\* dict.get(key, default)
Get(d, k, dflt) == IF k \in DOMAIN d THEN d[k] ELSE dflt

\* key in dict, for a dict kept as a sequence of entries
HasLabel(stats_data, l) == \E i \in 1..Len(stats_data) : stats_data[i].label = l

\* dict[key]
Entry(stats_data, l) ==
    stats_data[CHOOSE i \in 1..Len(stats_data) : stats_data[i].label = l].data

\* nearest integer to n / d, ties to the even neighbour (Python round on a quotient)
RoundDiv(n, d) ==
    LET q == n \div d
        r == n % d
    IN  IF 2 * r < d THEN q
        ELSE IF 2 * r > d THEN q + 1
        ELSE IF q % 2 = 0 THEN q ELSE q + 1

\* round(x, 2) of a value in thousandths
Round2(x) == 10 * RoundDiv(x, 10)

Min2(a, b) == IF a <= b THEN a ELSE b
Max2(a, b) == IF a >= b THEN a ELSE b

\* float('inf')
Inf == 1000000000

----------------------------------------------------------------------------
(* calculate_total_statistics *)

\* the entries the accumulation loop visits: label.lower() != 'total'
NonTotalEntries(stats_data) ==
    SelectSeq(stats_data, LAMBDA e : lower(e.label) # lower(Str_Total))

RECURSIVE SumSamples(_)
SumSamples(es) ==
    IF es = <<>> THEN 0 ELSE Get(es[1].data, "sampleCount", 0) + SumSamples(Tail(es))

RECURSIVE SumErrors(_)
SumErrors(es) ==
    IF es = <<>> THEN 0 ELSE Get(es[1].data, "errorCount", 0) + SumErrors(Tail(es))

\* variant: the means are added without their sample counts
RECURSIVE SumResponseTime_Unweighted(_)
SumResponseTime_Unweighted(es) ==
    IF es = <<>> THEN 0
    ELSE Get(es[1].data, "meanResTime", 0) + SumResponseTime_Unweighted(Tail(es))

\* sum of mean_time * samples
RECURSIVE SumResponseTime(_)
SumResponseTime(es) ==
    IF es = <<>> THEN 0
    ELSE Get(es[1].data, "meanResTime", 0) * Get(es[1].data, "sampleCount", 0)
           + SumResponseTime(Tail(es))

RECURSIVE MinOver(_, _, _)
MinOver(es, f, start) ==
    IF es = <<>> THEN start
    ELSE MinOver(Tail(es), f, Min2(start, Get(es[1].data, f, Inf)))

RECURSIVE MaxOver(_, _, _)
MaxOver(es, f, start) ==
    IF es = <<>> THEN start
    ELSE MaxOver(Tail(es), f, Max2(start, Get(es[1].data, f, 0)))

RECURSIVE SumField(_, _)
SumField(es, f) ==
    IF es = <<>> THEN 0 ELSE Get(es[1].data, f, 0) + SumField(Tail(es), f)

\* all_response_times.extend(data['rawResponses']) over the visited entries
RECURSIVE AllResponseTimes(_)
AllResponseTimes(es) ==
    IF es = <<>> THEN <<>>
    ELSE (IF "rawResponses" \in DOMAIN es[1].data THEN es[1].data["rawResponses"] ELSE <<>>)
           \o AllResponseTimes(Tail(es))

\* list.sort() of numbers
RECURSIVE InsertNum(_, _)
InsertNum(x, s) ==
    IF s = <<>> THEN <<x>>
    ELSE IF x <= s[1] THEN <<x>> \o s
    ELSE <<s[1]>> \o InsertNum(x, Tail(s))

RECURSIVE SortNums(_)
SortNums(s) == IF s = <<>> THEN <<>> ELSE InsertNum(s[1], SortNums(Tail(s)))

\* all_response_times[int(len(all_response_times) * p / 100)], 0-based index
PercentileOf(sorted, p) == sorted[((Len(sorted) * p) \div 100) + 1]

\* max(float(data.get(f, 0)) for data in stats_data.values()): every entry of the payload
MaxReported(stats_data, f) == MaxOver(stats_data, f, 0)

\* the division of line 299: total_samples / (max_response_time / 1000)
ThroughputRaises(max_response_time) == max_response_time = 0

\* calculate_total_statistics has not been called
NotCalculated == [status |-> "unset", exc |-> ""]

calculate_total_statistics(stats_data) ==
    LET es == NonTotalEntries(stats_data)
        total_samples == SumSamples(es)
        total_errors == SumErrors(es)
        total_response_time == SumResponseTime(es)
        min_response_time == MinOver(es, "minResTime", Inf)
        max_response_time == MaxOver(es, "maxResTime", 0)
        all_response_times == SortNums(AllResponseTimes(es))
        hasRaw == Len(all_response_times) > 0
    IN  IF total_samples > 0
        THEN IF ThroughputRaises(max_response_time)
             THEN [status |-> "raise", exc |-> "ZeroDivisionError"]
             ELSE [status |-> "ok", exc |-> "",
                   val |-> [sampleCount |-> total_samples,
                            errorCount |-> total_errors,
                            errorPct |-> 10 * RoundDiv(total_errors * 10000, total_samples),
                            meanResTime |-> 10 * RoundDiv(total_response_time, 10 * total_samples),
                            minResTime |-> Round2(IF min_response_time # Inf
                                                  THEN min_response_time ELSE 0),
                            maxResTime |-> Round2(max_response_time),
                            pct1ResTime |-> IF hasRaw
                                            THEN Round2(PercentileOf(all_response_times, 90))
                                            ELSE Round2(MaxReported(stats_data, "pct1ResTime")),
                            pct2ResTime |-> IF hasRaw
                                            THEN Round2(PercentileOf(all_response_times, 95))
                                            ELSE Round2(MaxReported(stats_data, "pct2ResTime")),
                            pct3ResTime |-> IF hasRaw
                                            THEN Round2(PercentileOf(all_response_times, 99))
                                            ELSE Round2(MaxReported(stats_data, "pct3ResTime")),
                            throughput |-> 10 * RoundDiv(total_samples * 100000000,
                                                         max_response_time),
                            receivedBytes |-> Round2(SumField(es, "receivedBytes")),
                            sentBytes |-> Round2(SumField(es, "sentBytes"))]]
        ELSE [status |-> "none", exc |-> ""]

----------------------------------------------------------------------------
(* is_http_endpoint, sort_endpoints *)

HttpPrefixes == { <<71, 69, 84, 32>>,                  \* 'GET '
                  <<80, 79, 83, 84, 32>>,              \* 'POST '
                  <<80, 85, 84, 32>>,                  \* 'PUT '
                  <<68, 69, 76, 69, 84, 69, 32>>,      \* 'DELETE '
                  <<80, 65, 84, 67, 72, 32>> }         \* 'PATCH '

is_http_endpoint(label) == \E p \in HttpPrefixes : StartsWith(label, p)

\* variant: no special case for the Total label
get_sort_key_NoTotal(label) ==
    IF is_http_endpoint(label) THEN <<2, label>> ELSE <<1, label>>

get_sort_key(label) ==
    IF label = Str_Total THEN <<0, label>>
    ELSE IF is_http_endpoint(label) THEN <<2, label>>
    ELSE <<1, label>>

\* tuple comparison of two sort keys
KeyLess(k1, k2) == k1[1] < k2[1] \/ (k1[1] = k2[1] /\ StrLess(k1[2], k2[2]))

RECURSIVE InsertRow(_, _)
InsertRow(r, s) ==
    IF s = <<>> THEN <<r>>
    ELSE IF KeyLess(get_sort_key(r["Label"]), get_sort_key(s[1]["Label"])) THEN <<r>> \o s
    ELSE <<s[1]>> \o InsertRow(r, Tail(s))

\* df.sort_values('sort_key') on rows with distinct labels
RECURSIVE SortRows(_)
SortRows(rows) == IF rows = <<>> THEN <<>> ELSE InsertRow(rows[1], SortRows(Tail(rows)))

\* adds the sort_key column, sorts, drops the sort_key column
sort_endpoints(df) ==
    IF "Label" \notin Range(df.columns) THEN df
    ELSE LET withKey == df.columns \o <<"sort_key">>
             sorted == SortRows(df.rows)
         IN  [df EXCEPT !.columns = SelectSeq(withKey, LAMBDA c : c # "sort_key"),
                        !.rows = sorted]

----------------------------------------------------------------------------
(* Tables *)

\* None in place of a table
NoneTable == [isNone |-> TRUE, columns |-> <<>>, rows |-> <<>>]

\* None in place of a parsed object
NoneValue == [isNone |-> TRUE, members |-> <<>>]

\* pd.DataFrame(): no columns, no rows
EmptyDataFrame == [isNone |-> FALSE, columns |-> <<>>, rows |-> <<>>]

MkTable(columns, rows) == [isNone |-> FALSE, columns |-> columns, rows |-> rows]

\* df.empty
IsEmpty(df) == Len(df.rows) = 0 \/ Len(df.columns) = 0

\* tables = {key: None for key in REPORT_TABLES.keys()}
NoTables == [k \in Range(REPORT_TABLES) |-> NoneTable]

RECURSIVE Flatten(_)
Flatten(ss) == IF ss = <<>> THEN <<>> ELSE ss[1] \o Flatten(Tail(ss))

\* keep the first occurrence of every element
RECURSIVE Dedup(_)
Dedup(s) ==
    IF s = <<>> THEN <<>>
    ELSE <<s[1]>> \o Dedup(SelectSeq(Tail(s), LAMBDA x : x # s[1]))

\* columns of pd.DataFrame(list of dicts): keys in order of first appearance
DataFrameColumns(keySeqs) == Dedup(Flatten(keySeqs))

\* df[cols]: KeyError when a requested column is missing
SelectColumns(df, cols) ==
    IF Range(cols) \subseteq Range(df.columns)
    THEN [status |-> "ok", exc |-> "", val |-> MkTable(cols, df.rows)]
    ELSE [status |-> "raise", exc |-> "KeyError", val |-> NoneTable]

----------------------------------------------------------------------------
(* parse_jmeter_tables: the endpoint table *)

OldCol(new) == COLUMN_MAPPING[CHOOSE i \in 1..Len(COLUMN_MAPPING) : COLUMN_MAPPING[i][2] = new][1]

\* the keys a row dict gets, in the order the loop over COLUMN_MAPPING sets them
RowKeys(data) ==
    LET present == SelectSeq(COLUMN_MAPPING,
                             LAMBDA m : m[1] = "Label" \/ m[1] \in DOMAIN data)
    IN  [i \in 1..Len(present) |-> present[i][2]]

\* the cell stored for a numeric value: counts as int, the rest round(float(value), 2)
CellValue(old_col, value) ==
    IF old_col \in {"sampleCount", "errorCount"} THEN value ELSE Round2(value)

StatsRow(label, data) ==
    [c \in Range(RowKeys(data)) |->
        IF c = "Label" THEN label ELSE CellValue(OldCol(c), data[OldCol(c)])]

StatsRows(stats_data) ==
    [i \in 1..Len(stats_data) |-> StatsRow(stats_data[i].label, stats_data[i].data)]

\* variant: the DataFrame is used with the columns it was built with
ReorderColumns_Skipped(df) == [status |-> "ok", exc |-> "", val |-> df]

\* stats_df = pd.DataFrame(stats_rows); stats_df = stats_df[COLUMN_ORDER]
ReorderColumns(df) == SelectColumns(df, COLUMN_ORDER)

EndpointTable(stats_data) ==
    LET stats_rows == StatsRows(stats_data)
        keySeqs == [i \in 1..Len(stats_data) |-> RowKeys(stats_data[i].data)]
        stats_df == MkTable(DataFrameColumns(keySeqs), stats_rows)
        ordered == ReorderColumns(stats_df)
    IN  IF ordered.status = "raise" THEN ordered
        ELSE [status |-> "ok", exc |-> "", val |-> sort_endpoints(ordered.val)]

----------------------------------------------------------------------------
(* parse_jmeter_tables: the aggregate table *)

AggregateMetrics == <<
    "Average Response Time (ms)",
    "Median Response Time (ms)",
    "Min Response Time (ms)",
    "Max Response Time (ms)",
    "Throughput (req/sec)",
    "Error %",
    "90th Percentile (ms)",
    "95th Percentile (ms)",
    "99th Percentile (ms)" >>

AggregateValues(total_stats) == <<
    Round2(Get(total_stats, "meanResTime", 0)),
    Round2(Get(total_stats, "medianResTime", Get(total_stats, "Median", 0))),
    Round2(Get(total_stats, "minResTime", 0)),
    Round2(Get(total_stats, "maxResTime", 0)),
    Round2(Get(total_stats, "throughput", 0)),
    Round2(Get(total_stats, "errorPct", 0)),
    Round2(Get(total_stats, "pct1ResTime", 0)),
    Round2(Get(total_stats, "pct2ResTime", 0)),
    Round2(Get(total_stats, "pct3ResTime", 0)) >>

AggregateTable(total_stats) ==
    MkTable(<<"Metric", "Value">>,
            [i \in 1..Len(AggregateMetrics) |->
                [Metric |-> AggregateMetrics[i], Value |-> AggregateValues(total_stats)[i]]])

----------------------------------------------------------------------------
(* create_errors_table *)

Str_Unknown_Error == <<85, 110, 107, 110, 111, 119, 110, 32, 69, 114, 114, 111, 114>>
Str_Timeout == <<84, 105, 109, 101, 111, 117, 116>>     \* "Timeout"
Str_Refused == <<82, 101, 102, 117, 115, 101, 100>>     \* "Refused"

EmptyDict == [l \in {} |-> <<>>]

\* the loop over error_data['items']: data = [Label, #Samples, #Errors, Error1, #Err1, ...]
RECURSIVE ErrorInfoOf(_, _)
ErrorInfoOf(items, error_info) ==
    IF items = <<>> THEN error_info
    ELSE LET data == items[1]
         IN  ErrorInfoOf(Tail(items),
                         IF Len(data) >= 5 /\ data[3] > 0
                         THEN (data[1] :> data[4]) @@ error_info
                         ELSE error_info)

\* error_info read from the dashboard.js that the path search finds
ErrorInfo(dashboard) ==
    IF ~dashboard.exists THEN EmptyDict
    ELSE IF dashboard.top5 = "items" THEN ErrorInfoOf(dashboard.items, EmptyDict)
    ELSE EmptyDict      \* no createTable match, or json.loads raised inside the try

ErrorRow(label, data, error_info) ==
    LET found == Get(error_info, label, Str_Unknown_Error)
        error_text == IF found = <<>> THEN Str_Unknown_Error ELSE found
    IN  ("Endpoint" :> label) @@
        ("Request #" :> Get(data, "sampleCount", 0)) @@
        ("Error #" :> Get(data, "errorCount", 0)) @@
        ("Error" :> error_text) @@
        ("Error %" :> Round2(Get(data, "errorPct", 0)))

\* variant: every label with errors gets a row, HTTP or not
HasErrorRow_AnyLabel(e) ==
    /\ lower(e.label) # lower(Str_Total)
    /\ Get(e.data, "errorCount", 0) > 0

HasErrorRow(e) ==
    /\ lower(e.label) # lower(Str_Total)
    /\ is_http_endpoint(e.label)
    /\ Get(e.data, "errorCount", 0) > 0

create_errors_table(stats_data, dashboard) ==
    LET error_info == ErrorInfo(dashboard)
        withErrors == SelectSeq(stats_data, HasErrorRow)
        error_rows == [i \in 1..Len(withErrors) |->
                          ErrorRow(withErrors[i].label, withErrors[i].data, error_info)]
    IN  IF Len(error_rows) > 0
        THEN MkTable(<<"Endpoint", "Request #", "Error #", "Error", "Error %">>, error_rows)
        ELSE NoneTable

----------------------------------------------------------------------------
(* parse_jmeter_tables *)

Returned(ts) == [outcome |-> "returned", exc |-> "", tables |-> ts]
Raised(e) == [outcome |-> "raised", exc |-> e, tables |-> NoTables]

\* the test of line 471
NeedsTotal(stats_data) == ~HasLabel(stats_data, Str_Total)

\* variant: the synthesized aggregate replaces an explicit Total entry
WithTotal_AlwaysSynthesized(payload, calc) ==
    IF calc.status = "ok"
    THEN Append(SelectSeq(payload, LAMBDA e : e.label # Str_Total),
                [label |-> Str_Total, data |-> calc.val])
    ELSE payload

\* stats_data after lines 470-474
WithTotal(payload, calc) ==
    IF NeedsTotal(payload) /\ calc.status = "ok"
    THEN Append(payload, [label |-> Str_Total, data |-> calc.val])
    ELSE payload

\* variant: an absent statistics.json is raised to the caller
WhenAbsent_Raises == Raised("FileNotFoundError")

\* what an absent statistics.json leads to (lines 544-547)
WhenAbsent == Returned(NoTables)

parse_jmeter_tables(file, dashboard) ==
    IF ~file.exists THEN WhenAbsent
    ELSE LET payload == file.payload
             calc == calculate_total_statistics(payload)
             stats_data == WithTotal(payload, calc)
         IN  IF NeedsTotal(payload) /\ calc.status = "raise" THEN Raised(calc.exc)
             ELSE IF Len(stats_data) = 0 THEN Returned(NoTables)
             ELSE LET ep == EndpointTable(stats_data)
                  IN  IF ep.status = "raise" THEN Raised(ep.exc)
                      ELSE Returned(
                             [endpoint_stats |-> ep.val,
                              aggregate_summary |->
                                  IF HasLabel(stats_data, Str_Total)
                                     /\ DOMAIN Entry(stats_data, Str_Total) # {}
                                  THEN AggregateTable(Entry(stats_data, Str_Total))
                                  ELSE NoneTable,
                              errors |-> create_errors_table(stats_data, dashboard)])

----------------------------------------------------------------------------
(* Inputs of the parse: statistics payloads *)

Without(r, keys) == [k \in DOMAIN r \ keys |-> r[k]]

RecA == [sampleCount |-> 4, errorCount |-> 1, errorPct |-> 25000, meanResTime |-> 5126,
         minResTime |-> 1000, maxResTime |-> 9000, medianResTime |-> 4000,
         pct1ResTime |-> 7004, pct2ResTime |-> 8000, pct3ResTime |-> 8996,
         throughput |-> 2500, receivedKBytesPerSec |-> 1234, sentKBytesPerSec |-> 1236]

RecB == [sampleCount |-> 2, errorCount |-> 0, errorPct |-> 0, meanResTime |-> 2000,
         minResTime |-> 500, maxResTime |-> 3000, medianResTime |-> 2000,
         pct1ResTime |-> 2500, pct2ResTime |-> 2800, pct3ResTime |-> 9500,
         throughput |-> 1000, receivedKBytesPerSec |-> 100, sentKBytesPerSec |-> 50]

RecZero == [sampleCount |-> 0, errorCount |-> 0, errorPct |-> 0, meanResTime |-> 0,
            minResTime |-> 0, maxResTime |-> 0, medianResTime |-> 0,
            pct1ResTime |-> 0, pct2ResTime |-> 0, pct3ResTime |-> 0,
            throughput |-> 0, receivedKBytesPerSec |-> 0, sentKBytesPerSec |-> 0]

RecordSet == { RecA, RecB, RecZero,
               Without(RecA, {"medianResTime"}),
               Without(RecA, {"sampleCount"}),
               Without(RecB, {"maxResTime"}),
               RecB @@ [rawResponses |-> <<3000, 500, 1234>>] }

Labels == { Str_Total, Str_total, Str_GET_a, Str_DELETE_c, Str_Login, Str_GET }

\* JSON objects with at most max keys, the keys distinct
Payloads(max) ==
    UNION { { [i \in 1..n |-> [label |-> ls[i], data |-> rs[i]]] :
                ls \in { f \in [1..n -> Labels] : \A i, j \in 1..n : i # j => f[i] # f[j] },
                rs \in [1..n -> RecordSet] } : n \in 0..max }

AbsentFile == [exists |-> FALSE, payload |-> <<>>]
AbsentDashboard == [exists |-> FALSE, top5 |-> "nomatch", items |-> <<>>]

----------------------------------------------------------------------------
(* Parsing a report, and parsing it again once its Total entry is removed *)

\* variant: reading statistics.json consumes it
AfterRead_Consumed(file) == AbsentFile

\* statistics.json once parse_jmeter_tables has read it: opened with 'r', never written
AfterRead(file) == file

InitOther ==
    /\ jsSource = <<>> /\ tableId = "" /\ extracted = NoneValue
    /\ cmpInput = <<>> /\ cmpKind = "" /\ cmpResult = NoneTable
    /\ InitIdle

InitParse ==
    /\ statsFile \in {AbsentFile} \cup { [exists |-> TRUE, payload |-> p] : p \in Payloads(MaxEntries) }
    /\ dashboardJs = AbsentDashboard
    /\ phase = "ready"
    /\ outcome = "none"
    /\ exc = ""
    /\ tables = NoTables
    /\ firstTables = NoTables
    /\ firstOutcome = "none"
    /\ totalStats = NotCalculated
    /\ removed = <<>>
    /\ InitOther

ParseJmeterTables ==
    /\ phase = "ready"
    /\ LET res == parse_jmeter_tables(statsFile, dashboardJs)
       IN  /\ outcome' = res.outcome
           /\ exc' = res.exc
           /\ tables' = res.tables
    /\ phase' = "parsed"
    /\ statsFile' = AfterRead(statsFile)
    /\ UNCHANGED <<dashboardJs, firstTables, firstOutcome, totalStats, removed,
                   extractVars, compareVars, appVars>>

\* the same report is parsed a second time, nothing else having changed
ParseAgain ==
    /\ phase = "parsed"
    /\ LET res == parse_jmeter_tables(statsFile, dashboardJs)
       IN  /\ outcome' = res.outcome
           /\ exc' = res.exc
           /\ tables' = res.tables
    /\ firstTables' = tables
    /\ firstOutcome' = outcome
    /\ phase' = "reparsed"
    /\ statsFile' = AfterRead(statsFile)
    /\ UNCHANGED <<dashboardJs, totalStats, removed, extractVars, compareVars, appVars>>

\* the report is edited: its explicit "Total" entry is deleted from statistics.json
RemoveTotalEntry ==
    /\ phase = "parsed"
    /\ outcome = "returned"
    /\ removed = <<>>
    /\ statsFile.exists
    /\ HasLabel(statsFile.payload, Str_Total)
    /\ statsFile' = [statsFile EXCEPT
                       !.payload = SelectSeq(@, LAMBDA e : e.label # Str_Total)]
    /\ firstTables' = tables
    /\ firstOutcome' = outcome
    /\ removed' = <<Entry(statsFile.payload, Str_Total)>>
    /\ phase' = "ready"
    /\ outcome' = "none"
    /\ UNCHANGED <<dashboardJs, exc, tables, totalStats, extractVars, compareVars, appVars>>

NextParse == ParseJmeterTables \/ RemoveTotalEntry \/ ParseAgain

SpecParse == InitParse /\ [][NextParse]_vars

----------------------------------------------------------------------------
(* Properties of parse_jmeter_tables *)

Parsed == phase = "parsed"
ParsedTable(k) == Parsed /\ outcome = "returned" /\ ~tables[k].isNone

RowLabels(df) == [i \in 1..Len(df.rows) |-> df.rows[i]["Label"]]

\* C1: whenever parse_jmeter_tables returns an endpoint table, its columns are exactly
\* the 14 canonical columns in the canonical order, whichever source fields the
\* records of the payload carry.
C1_CanonicalColumns ==
    ParsedTable("endpoint_stats") =>
        tables["endpoint_stats"].columns =
            <<"Label", "#Samples", "FAIL", "Error %", "Average", "Min", "Max", "Median",
              "90th pct", "95th pct", "99th pct", "Transactions/s", "Received", "Sent">>

\* an endpoint table was returned for a payload in which a record lacks a field
\* that another record has, and one whose first record is the incomplete one
C1_Witness ==
    /\ ParsedTable("endpoint_stats")
    /\ Len(statsFile.payload) >= 2
    /\ DOMAIN statsFile.payload[1].data # DOMAIN statsFile.payload[2].data
    /\ "medianResTime" \notin DOMAIN statsFile.payload[1].data
    /\ \E i \in 1..Len(tables["endpoint_stats"].rows) :
           DOMAIN tables["endpoint_stats"].rows[i] # Range(tables["endpoint_stats"].columns)

C3_NeverRaisesNeverDrops ==
    (Parsed /\ statsFile.exists) =>
        /\ outcome = "returned"
        /\ Len(statsFile.payload) > 0 =>
              /\ ~tables["endpoint_stats"].isNone
              /\ \A i \in 1..Len(statsFile.payload) :
                    statsFile.payload[i].label \in Range(RowLabels(tables["endpoint_stats"]))

IsAggregateLabel(l) == lower(l) = Str_total

\* C4: the endpoint table of a non-empty payload has exactly one aggregate row, and
\* an aggregate is synthesized exactly when no label of the payload is "Total",
\* compared exactly or case-insensitively.
C4_ExactlyOneAggregate ==
    (ParsedTable("endpoint_stats") /\ Len(statsFile.payload) > 0) =>
        LET labels == RowLabels(tables["endpoint_stats"])
            synthesized == Str_Total \in Range(labels) /\ ~HasLabel(statsFile.payload, Str_Total)
        IN  /\ Cardinality({i \in 1..Len(labels) : IsAggregateLabel(labels[i])}) = 1
            /\ synthesized <=>
                 ~\E i \in 1..Len(statsFile.payload) : IsAggregateLabel(statsFile.payload[i].label)

HttpVerbPrefixed(l) ==
    \/ StartsWith(l, <<71, 69, 84, 32>>)
    \/ StartsWith(l, <<80, 79, 83, 84, 32>>)
    \/ StartsWith(l, <<80, 85, 84, 32>>)
    \/ StartsWith(l, <<68, 69, 76, 69, 84, 69, 32>>)
    \/ StartsWith(l, <<80, 65, 84, 67, 72, 32>>)

AbsDiff(a, b) == IF a >= b THEN a - b ELSE b - a

AggregateValue(df, metric) ==
    df.rows[CHOOSE i \in 1..Len(df.rows) : df.rows[i].Metric = metric].Value

\* the Total entry agrees with the per-endpoint entries it summarises, every endpoint
\* record carrying all of its fields
ConsistentTotal(total, endpoints) ==
    /\ {"sampleCount", "errorCount", "errorPct", "meanResTime", "minResTime",
        "maxResTime", "medianResTime"} \subseteq DOMAIN total
    /\ Len(endpoints) > 0
    /\ \A i \in 1..Len(endpoints) :
          /\ ~IsAggregateLabel(endpoints[i].label)
          /\ DOMAIN endpoints[i].data = DOMAIN RecA
    /\ total.sampleCount > 0
    /\ total.sampleCount = SumSamples(endpoints)
    /\ total.errorCount = SumErrors(endpoints)
    /\ total.meanResTime * total.sampleCount = SumResponseTime(endpoints)
    /\ total.minResTime = MinOver(endpoints, "minResTime", Inf)
    /\ total.maxResTime = MaxOver(endpoints, "maxResTime", 0)
    /\ AbsDiff(total.errorPct * total.sampleCount, total.errorCount * 100000) <= 5

\* C6: for a payload whose explicit Total entry is consistent with its endpoints, the
\* aggregate table of the parse and the aggregate table of the parse made after the
\* entry is removed agree within 0.01 on average, median, min and max response time
\* and on error %.
C6_RoundTrip ==
    (Parsed /\ removed # <<>> /\ ConsistentTotal(removed[1], statsFile.payload)) =>
        /\ outcome = "returned"
        /\ ~firstTables["aggregate_summary"].isNone
        /\ ~tables["aggregate_summary"].isNone
        /\ \A m \in {"Average Response Time (ms)", "Median Response Time (ms)",
                     "Min Response Time (ms)", "Max Response Time (ms)", "Error %"} :
              AbsDiff(AggregateValue(firstTables["aggregate_summary"], m),
                      AggregateValue(tables["aggregate_summary"], m)) <= 10

\* C7: the aggregate table lists the 9 canonical metrics in the canonical order, each
\* value rounded to 2 decimals, and when the payload carries an explicit "Total"
\* entry every value is that entry's own field (0 when the entry lacks it), also
\* when endpoints carry raw response samples.
C7_AggregateFromTotal ==
    ParsedTable("aggregate_summary") =>
        LET agg == tables["aggregate_summary"]
            fields == <<"meanResTime", "medianResTime", "minResTime", "maxResTime",
                        "throughput", "errorPct", "pct1ResTime", "pct2ResTime",
                        "pct3ResTime">>
        IN  /\ agg.columns = <<"Metric", "Value">>
            /\ [i \in 1..Len(agg.rows) |-> agg.rows[i].Metric] =
                  <<"Average Response Time (ms)", "Median Response Time (ms)",
                    "Min Response Time (ms)", "Max Response Time (ms)",
                    "Throughput (req/sec)", "Error %", "90th Percentile (ms)",
                    "95th Percentile (ms)", "99th Percentile (ms)">>
            /\ \A i \in 1..Len(agg.rows) : agg.rows[i].Value % 10 = 0
            /\ HasLabel(statsFile.payload, Str_Total) =>
                  \A i \in 1..9 :
                     LET total == Entry(statsFile.payload, Str_Total)
                     IN  AbsDiff(agg.rows[i].Value,
                                 IF fields[i] \in DOMAIN total THEN total[fields[i]] ELSE 0) <= 5

\* an aggregate table built from an explicit Total entry while an endpoint carries
\* raw response samples and the synthesis would have given other values
C7_Witness ==
    /\ ParsedTable("aggregate_summary")
    /\ HasLabel(statsFile.payload, Str_Total)
    /\ \E i \in 1..Len(statsFile.payload) :
          /\ statsFile.payload[i].label # Str_Total
          /\ "rawResponses" \in DOMAIN statsFile.payload[i].data
    /\ calculate_total_statistics(statsFile.payload).status = "ok"
    /\ AggregateValues(calculate_total_statistics(statsFile.payload).val)
          # AggregateValues(Entry(statsFile.payload, Str_Total))

----------------------------------------------------------------------------
(* extract_table_data *)

\* A regular expression as the sequence of its tokens: "(" and ")" delimit a group,
\* every other token (escapes such as \( and \) included) matches text.
TablePattern(table_id) ==
    <<"createTable", "\\(", "\\$", "\\(", "\"#", table_id, "\"", "\\)", ",", "\\s*",
      "(", "{", ".*?", "}", ")", ",", "\\s*", "function">>

\* the alternative pattern of lines 96 and 103: the parenthesis after \$ is not escaped
AlternativePattern(table_id) ==
    <<"createTable", "\\(", "\\$", "(", "\"#", table_id, "\"", "\\)", ",", "\\s*",
      "(", "{", ".*?", "}", ")", ",", "\\s*", "function">>

\* re.compile: the groups of the pattern must be balanced
RECURSIVE GroupDepth(_, _)
GroupDepth(pattern, depth) ==
    IF pattern = <<>> THEN depth
    ELSE IF depth < 0 THEN depth
    ELSE GroupDepth(Tail(pattern),
                    IF pattern[1] = "(" THEN depth + 1
                    ELSE IF pattern[1] = ")" THEN depth - 1
                    ELSE depth)

PatternCompiles(pattern) == GroupDepth(pattern, 0) = 0

\* the text a compiled pattern matches: createTable($("#<id>"), {...}, function
\* (a pattern with an extra group around "#<id>" matches the same text)
PatternMatches(pattern, invocation) ==
    /\ \E i \in 1..Len(pattern) : pattern[i] = "\"#" /\ pattern[i + 1] = invocation.table

\* re.search(pattern, js_content, re.DOTALL)
ReSearch(pattern, js_content) ==
    IF ~PatternCompiles(pattern) THEN [status |-> "raise", exc |-> "re.error", found |-> <<>>]
    ELSE LET hits == SelectSeq(js_content, LAMBDA inv : PatternMatches(pattern, inv))
         IN  [status |-> "ok", exc |-> "",
              found |-> IF hits = <<>> THEN <<>> ELSE <<hits[1].literal>>]

\* An object literal is its members and whether a comma follows the last one.
\* key:  "dq" "k"   "bare" k   "sq" 'k'
\* val:  "num" 1   "dqstr" "s"   "sqstr" 's'   "undefined"   "null"   "expr" f(x)
CleanKey(k) == "dq"
CleanVal(v) == IF v = "sqstr" THEN "dqstr" ELSE IF v = "undefined" THEN "null" ELSE v

clean_json_string(json_str) ==
    [members |-> [i \in 1..Len(json_str.members) |->
                     [key |-> CleanKey(json_str.members[i].key),
                      val |-> CleanVal(json_str.members[i].val)]],
     trailing |-> FALSE]

\* json.loads accepts the text
IsJson(text) ==
    /\ ~text.trailing
    /\ \A i \in 1..Len(text.members) :
          /\ text.members[i].key = "dq"
          /\ text.members[i].val \in {"num", "dqstr", "null"}

extract_table_data(js_content, table_id) ==
    LET first == ReSearch(TablePattern(table_id), js_content)
        second == ReSearch(AlternativePattern(table_id), js_content)
    IN  IF first.status = "raise" THEN [outcome |-> "raised", exc |-> first.exc, val |-> NoneValue]
        ELSE IF first.found = <<>> /\ second.status = "raise"
        THEN [outcome |-> "raised", exc |-> second.exc, val |-> NoneValue]
        ELSE LET match == IF first.found # <<>> THEN first.found ELSE second.found
             IN  IF match = <<>> THEN [outcome |-> "returned", exc |-> "", val |-> NoneValue]
                 ELSE LET data_str == clean_json_string(match[1])
                      IN  IF IsJson(data_str)
                          THEN [outcome |-> "returned", exc |-> "",
                                val |-> [isNone |-> FALSE, members |-> data_str.members]]
                          ELSE [outcome |-> "returned", exc |-> "", val |-> NoneValue]

----------------------------------------------------------------------------
(* Extracting a table from JavaScript source *)

MaxMembers == 1
MaxInvocations == 2

KeyKinds == {"dq", "bare", "sq"}
ValKinds == {"num", "sqstr", "undefined", "expr"}

Literals(max) ==
    { [members |-> ms, trailing |-> t] :
        ms \in UNION { [1..n -> [key : KeyKinds, val : ValKinds]] : n \in 0..max },
        t \in BOOLEAN }

SourceTableIds == {"statisticsTable", "errorsTable"}
TableIds == {"statisticsTable", "errorsTable", "apdexTable"}

\* dashboard.js texts: at most max createTable invocations, for distinct tables
JsSources(max) ==
    UNION { { src \in [1..n -> [table : SourceTableIds, literal : Literals(MaxMembers)]] :
                \A i, j \in 1..n : i # j => src[i].table # src[j].table } :
            n \in 0..max }

InitExtract ==
    /\ jsSource \in JsSources(MaxInvocations)
    /\ tableId \in TableIds
    /\ extracted = NoneValue
    /\ phase = "ready"
    /\ outcome = "none"
    /\ exc = ""
    /\ statsFile = AbsentFile /\ dashboardJs = AbsentDashboard
    /\ tables = NoTables /\ firstTables = NoTables /\ firstOutcome = "none" /\ totalStats = NotCalculated /\ removed = <<>>
    /\ cmpInput = <<>> /\ cmpKind = "" /\ cmpResult = NoneTable
    /\ InitIdle

ExtractTableData ==
    /\ phase = "ready"
    /\ LET res == extract_table_data(jsSource, tableId)
       IN  /\ outcome' = res.outcome
           /\ exc' = res.exc
           /\ extracted' = res.val
    /\ phase' = "extracted"
    /\ UNCHANGED <<jsSource, tableId, parseVars, compareVars, appVars>>

NextExtract == ExtractTableData

SpecExtract == InitExtract /\ [][NextExtract]_vars

\* C8: extract_table_data never raises: it returns the parsed object, or the absent
\* value when no createTable invocation for the table matches or when the captured
\* literal still fails to parse after repair.
C8_ExtractIsTotal == phase = "extracted" => outcome = "returned"

----------------------------------------------------------------------------
(* Formatted cells of the comparison tables *)

BlankCell == [kind |-> "blank", n |-> 0]                \* ""
NanCell == [kind |-> "nan", n |-> 0]                    \* "nan"
IntCell(v) == [kind |-> "int", n |-> v]                 \* f"{int(v)}"
Fixed2Cell(v) == [kind |-> "fixed2", n |-> RoundDiv(v, 10)]   \* f"{float(v):.2f}", in hundredths
PercentCell(h) == [kind |-> "percent", n |-> h]         \* f"{x:.2f}%", in hundredths

\* df[col].unique()
UniqueOf(df, col) == Dedup([i \in 1..Len(df.rows) |-> df.rows[i][col]])

\* df[df[col] == value]
RowsWhere(df, col, value) == SelectSeq(df.rows, LAMBDA r : r[col] = value)

\* the first guard alone (lines 8-10)
RejectsInputs_LengthOnly(dfs, report_names) ==
    \/ Len(dfs) = 0
    \/ Len(report_names) = 0
    \/ Len(dfs) # Len(report_names)

\* the guards shared by compare_endpoint_stats and compare_aggregate_stats (lines 8-13)
RejectsInputs(dfs, report_names) ==
    \/ Len(dfs) = 0
    \/ Len(report_names) = 0
    \/ Len(dfs) # Len(report_names)
    \/ \E i \in 1..Len(dfs) : dfs[i].isNone \/ IsEmpty(dfs[i])

CmpReturned(df) == [outcome |-> "returned", exc |-> "", val |-> df]
CmpRaised(e) == [outcome |-> "raised", exc |-> e, val |-> NoneTable]

----------------------------------------------------------------------------
(* compare_endpoint_stats *)

EndpointMetrics == <<
    <<"#Samples", "#Samples">>,
    <<"Average", "Average Response Time (ms)">>,
    <<"Error %", "Error %">>,
    <<"Transactions/s", "Throughput (req/sec)">>,
    <<"Median", "Median Response Time (ms)">>,
    <<"90th pct", "90th Percentile (ms)">>,
    <<"95th pct", "95th Percentile (ms)">>,
    <<"99th pct", "99th Percentile (ms)">> >>

\* every report's labels appended, repeated or not
RECURSIVE UnionLabels_Concat(_, _)
UnionLabels_Concat(dfs, labels) ==
    IF dfs = <<>> THEN labels
    ELSE UnionLabels_Concat(Tail(dfs), labels \o UniqueOf(dfs[1], "Label"))

\* labels of the first report, then the labels each later report adds
RECURSIVE UnionLabels(_, _)
UnionLabels(dfs, labels) ==
    IF dfs = <<>> THEN labels
    ELSE UnionLabels(Tail(dfs),
                     labels \o SelectSeq(UniqueOf(dfs[1], "Label"),
                                         LAMBDA l : l \notin Range(labels)))

\* f"{metric_display} ({name})"
ComparisonColumn(metric_display, name) == metric_display \o " (" \o name \o ")"

\* the (metric, report) pairs in the order the two inner loops visit them
EndpointCells(n) ==
    [k \in 1..(Len(EndpointMetrics) * n) |->
        [metric |-> ((k - 1) \div n) + 1, report |-> ((k - 1) % n) + 1]]

\* v = df[df['Label'] == label][metric_key].iloc[0]: the cell, NaN when the row has none
HasValue(df, label, metric_key) ==
    metric_key \in DOMAIN RowsWhere(df, "Label", label)[1]

\* int(v) of a NaN cell raises ValueError
IntOfNanRaises(df, label, metric_key) ==
    /\ label \in Range(UniqueOf(df, "Label"))
    /\ metric_key \in Range(df.columns)
    /\ metric_key = "#Samples"
    /\ ~HasValue(df, label, metric_key)

EndpointCell(df, label, metric_key) ==
    IF label \in Range(UniqueOf(df, "Label"))
    THEN IF metric_key \notin Range(df.columns) THEN BlankCell
         ELSE IF ~HasValue(df, label, metric_key) THEN NanCell
         ELSE IF metric_key = "#Samples"
              THEN IntCell(RowsWhere(df, "Label", label)[1][metric_key])
              ELSE Fixed2Cell(RowsWhere(df, "Label", label)[1][metric_key])
    ELSE BlankCell

compare_endpoint_stats(dfs, report_names) ==
    IF RejectsInputs(dfs, report_names) THEN CmpReturned(EmptyDataFrame)
    ELSE LET labels == UnionLabels(Tail(dfs), UniqueOf(dfs[1], "Label"))
             n == Len(dfs)
             cells == EndpointCells(n)
             colOf(k) == ComparisonColumn(EndpointMetrics[cells[k].metric][2],
                                          report_names[cells[k].report])
             cols == Dedup(<<"Endpoint">> \o [k \in 1..Len(cells) |-> colOf(k)])
             \* a dict keeps the value assigned last to a key
             lastOf(c) == CHOOSE k \in 1..Len(cells) :
                              /\ colOf(k) = c
                              /\ \A k2 \in 1..Len(cells) : colOf(k2) = c => k2 <= k
             rowOf(label) ==
                 [c \in Range(cols) |->
                     IF c = "Endpoint" THEN [kind |-> "label", n |-> label]
                     ELSE EndpointCell(dfs[cells[lastOf(c)].report], label,
                                       EndpointMetrics[cells[lastOf(c)].metric][1])]
         IN  IF \E i \in 1..Len(labels), j \in 1..n : IntOfNanRaises(dfs[j], labels[i], "#Samples")
             THEN CmpRaised("ValueError")
             ELSE CmpReturned(MkTable(cols, [i \in 1..Len(labels) |-> rowOf(labels[i])]))

----------------------------------------------------------------------------
(* compare_aggregate_stats *)

\* the order of the aggregate table of parse_jmeter_tables
metric_order_Canonical == AggregateMetrics

metric_order == <<
    "Average Response Time (ms)",
    "Error %",
    "Throughput (req/sec)",
    "Min Response Time (ms)",
    "Max Response Time (ms)",
    "Median Response Time (ms)",
    "90th Percentile (ms)",
    "95th Percentile (ms)",
    "99th Percentile (ms)" >>

\* m = {row['Metric']: row['Value'] for _, row in df.iterrows()}; m.get(metric, None)
MetricCell(df, metric) ==
    LET hits == RowsWhere(df, "Metric", metric)
    IN  IF hits = <<>> THEN BlankCell ELSE Fixed2Cell(hits[Len(hits)].Value)

compare_aggregate_stats(dfs, report_names) ==
    IF RejectsInputs(dfs, report_names) THEN CmpReturned(EmptyDataFrame)
    ELSE LET n == Len(dfs)
             cols == Dedup(<<"Metric">> \o report_names)
             lastOf(c) == CHOOSE k \in 1..n :
                              /\ report_names[k] = c
                              /\ \A k2 \in 1..n : report_names[k2] = c => k2 <= k
             rowOf(metric) ==
                 [c \in Range(cols) |->
                     IF c = "Metric" THEN [kind |-> "metric", n |-> metric]
                     ELSE MetricCell(dfs[lastOf(c)], metric)]
         IN  CmpReturned(MkTable(cols, [i \in 1..Len(metric_order) |-> rowOf(metric_order[i])]))

----------------------------------------------------------------------------
(* compare_errors *)

RECURSIVE InsertStr(_, _)
InsertStr(x, s) ==
    IF s = <<>> THEN <<x>>
    ELSE IF StrLess(x, s[1]) THEN <<x>> \o s
    ELSE <<s[1]>> \o InsertStr(x, Tail(s))

\* sorted(set of str)
RECURSIVE SortedStrs(_)
SortedStrs(S) ==
    IF S = {} THEN <<>>
    ELSE LET x == CHOOSE y \in S : TRUE IN InsertStr(x, SortedStrs(S \ {x}))

\* errorsN of line 19/20: the rows of the endpoint, or a DataFrame without columns
ErrorsOf(df, endpoint) ==
    IF endpoint \in Range(UniqueOf(df, "Endpoint"))
    THEN MkTable(df.columns, RowsWhere(df, "Endpoint", endpoint))
    ELSE EmptyDataFrame

\* errorsN['Error'] raises KeyError, caught by the handler of the endpoint loop
EndpointSkipped(errors1, errors2) ==
    "Error" \notin Range(errors1.columns) \/ "Error" \notin Range(errors2.columns)

HasError(errors, error) == ~IsEmpty(errors) /\ error \in Range(UniqueOf(errors, "Error"))

\* errorsN[...]['Count'] raises KeyError, caught by the handler of the error loop
PairSkipped(errors1, errors2, error) ==
    \/ HasError(errors1, error) /\ "Count" \notin Range(errors1.columns)
    \/ HasError(errors2, error) /\ "Count" \notin Range(errors2.columns)

CountOf(errors, error) ==
    IF HasError(errors, error) THEN RowsWhere(errors, "Error", error)[1]["Count"] ELSE 0

TotalOf(errors) ==
    IF ~IsEmpty(errors) /\ "Total" \in Range(errors.columns)
    THEN errors.rows[1]["Total"] ELSE 0

\* variant: the share of the total, not multiplied by 100
Pct_Share(count, total) == IF total > 0 THEN <<count, total>> ELSE <<0, 1>>

\* count / total * 100 as a fraction, 0 when total is 0
Pct(count, total) == IF total > 0 THEN <<count * 100, total>> ELSE <<0, 1>>

\* the fraction in hundredths, as "{x:.2f}" prints it
Hundredths(frac) == RoundDiv(frac[1] * 100, frac[2])

ComparisonRow(endpoint, error, errors1, errors2) ==
    LET count1 == CountOf(errors1, error)
        count2 == CountOf(errors2, error)
        pct1 == Pct(count1, TotalOf(errors1))
        pct2 == Pct(count2, TotalOf(errors2))
        pct_diff == <<pct2[1] * pct1[2] - pct1[1] * pct2[2], pct1[2] * pct2[2]>>
    IN  ("Endpoint" :> [kind |-> "label", n |-> endpoint]) @@
        ("Error Description" :> [kind |-> "label", n |-> error]) @@
        ("Report 1 Count" :> IntCell(count1)) @@
        ("Report 1 %" :> PercentCell(Hundredths(pct1))) @@
        ("Report 2 Count" :> IntCell(count2)) @@
        ("Report 2 %" :> PercentCell(Hundredths(pct2))) @@
        ("Count Difference" :> IntCell(count2 - count1)) @@
        ("% Difference" :> PercentCell(Hundredths(pct_diff)))

\* the rows the error loop appends for one endpoint
EndpointComparison(df1, df2, endpoint) ==
    LET errors1 == ErrorsOf(df1, endpoint)
        errors2 == ErrorsOf(df2, endpoint)
    IN  IF EndpointSkipped(errors1, errors2) THEN <<>>
        ELSE LET descriptions ==
                     SortedStrs(Range(UniqueOf(errors1, "Error"))
                                  \cup Range(UniqueOf(errors2, "Error")))
                 kept == SelectSeq(descriptions,
                                   LAMBDA e : ~PairSkipped(errors1, errors2, e))
             IN  [i \in 1..Len(kept) |-> ComparisonRow(endpoint, kept[i], errors1, errors2)]

RECURSIVE ComparisonData(_, _, _)
ComparisonData(df1, df2, endpoints) ==
    IF endpoints = <<>> THEN <<>>
    ELSE EndpointComparison(df1, df2, endpoints[1])
           \o ComparisonData(df1, df2, Tail(endpoints))

ErrorComparisonColumns ==
    <<"Endpoint", "Error Description", "Report 1 Count", "Report 1 %",
      "Report 2 Count", "Report 2 %", "Count Difference", "% Difference">>

compare_errors(df1, df2) ==
    IF df1.isNone \/ df2.isNone \/ IsEmpty(df1) \/ IsEmpty(df2)
    THEN CmpReturned(EmptyDataFrame)
    ELSE IF "Endpoint" \notin Range(df1.columns) \/ "Endpoint" \notin Range(df2.columns)
    THEN CmpRaised("KeyError")
    ELSE LET endpoints == SortedStrs(Range(UniqueOf(df1, "Endpoint"))
                                       \cup Range(UniqueOf(df2, "Endpoint")))
             comparison_data == ComparisonData(df1, df2, endpoints)
         IN  IF comparison_data = <<>> THEN CmpReturned(EmptyDataFrame)
             ELSE CmpReturned(MkTable(ErrorComparisonColumns, comparison_data))

----------------------------------------------------------------------------
(* Comparing reports *)

MaxReports == 2
MaxErrorRows == 2

\* the reports that are compared: table sets that parse_jmeter_tables returned
ComparePayloads == {
    << [label |-> Str_GET_a, data |-> RecA] >>,
    << [label |-> Str_Login, data |-> RecB], [label |-> Str_GET_a, data |-> RecA] >>,
    << [label |-> Str_GET_a, data |-> Without(RecA, {"sampleCount"})],
       [label |-> Str_Total, data |-> RecA] >>,
    << [label |-> Str_DELETE_c, data |-> RecA], [label |-> Str_Total, data |-> RecB] >>,
    << [label |-> Str_GET, data |-> RecZero] >> }

ParsedReports ==
    { parse_jmeter_tables([exists |-> TRUE, payload |-> p], AbsentDashboard).tables :
        p \in ComparePayloads }
    \cup { NoTables }

\* a table set whose tables are present and have no rows
EmptyTables == [k \in Range(REPORT_TABLES) |-> EmptyDataFrame]

\* a table set whose aggregate table carries only its first two metrics
PartialTables ==
    LET ts == parse_jmeter_tables(
                  [exists |-> TRUE, payload |-> << [label |-> Str_GET_a, data |-> RecA] >>],
                  AbsentDashboard).tables
    IN  [ts EXCEPT !["aggregate_summary"].rows = SubSeq(@, 1, 2)]

\* the table sets handed to the comparisons
ComparedReports == ParsedReports \cup { EmptyTables, PartialTables }

ReportNames == {"v1", "v2"}

SeqsUpTo(S, n) == UNION { [1..k -> S] : k \in 0..n }

\* error tables with the columns compare_errors reads
ErrorRecord(endpoint, error, count, total) ==
    ("Endpoint" :> endpoint) @@ ("Error" :> error) @@ ("Count" :> count) @@ ("Total" :> total)

ErrorRecords == { ErrorRecord(Str_GET_a, Str_Timeout, 5, 100),
                  ErrorRecord(Str_GET_a, Str_Refused, 2, 100),
                  ErrorRecord(Str_DELETE_c, Str_Timeout, 1, 0),
                  ErrorRecord(Str_DELETE_c, Str_Timeout, 3, 50) }

CountedErrorTables ==
    { MkTable(<<"Endpoint", "Error", "Count", "Total">>, rows) :
        rows \in { r \in SeqsUpTo(ErrorRecords, MaxErrorRows) :
                     \A i, j \in 1..Len(r) :
                        i # j => <<r[i]["Endpoint"], r[i]["Error"]>>
                                   # <<r[j]["Endpoint"], r[j]["Error"]>> } }

ErrorTables == CountedErrorTables \cup { t["errors"] : t \in ParsedReports }

CompareInputs ==
    { [kind |-> k, dfs |-> [i \in 1..Len(rs) |-> rs[i][k]], names |-> ns,
       df1 |-> NoneTable, df2 |-> NoneTable] :
        k \in {"endpoint_stats", "aggregate_summary"},
        rs \in SeqsUpTo(ComparedReports, MaxReports),
        ns \in SeqsUpTo(ReportNames, MaxReports) }
    \cup
    { [kind |-> "errors", dfs |-> <<>>, names |-> <<>>, df1 |-> a, df2 |-> b] :
        a \in ErrorTables, b \in ErrorTables }

InitCompare ==
    /\ cmpInput \in CompareInputs
    /\ cmpKind = ""
    /\ cmpResult = NoneTable
    /\ phase = "ready"
    /\ outcome = "none"
    /\ exc = ""
    /\ statsFile = AbsentFile /\ dashboardJs = AbsentDashboard
    /\ tables = NoTables /\ firstTables = NoTables /\ firstOutcome = "none" /\ totalStats = NotCalculated /\ removed = <<>>
    /\ jsSource = <<>> /\ tableId = "" /\ extracted = NoneValue
    /\ InitIdle

\* variant: the comparison empties the tables it was given
AfterCompare_Consumed(input) ==
    [input EXCEPT !.dfs = [i \in 1..Len(@) |-> EmptyDataFrame],
                  !.df1 = EmptyDataFrame, !.df2 = EmptyDataFrame]

\* the arguments once the comparison is over: the three functions only read dfs,
\* df1 and df2 (selections are copies, the formatting of lines 69-71 is applied to
\* the new comparison_df)
AfterCompare(input) == input

Compared(kind, res) ==
    /\ cmpKind' = kind
    /\ outcome' = res.outcome
    /\ exc' = res.exc
    /\ cmpResult' = res.val
    /\ phase' = "compared"
    /\ cmpInput' = AfterCompare(cmpInput)
    /\ UNCHANGED <<parseVars, extractVars, appVars>>

CompareEndpointStats ==
    /\ phase = "ready"
    /\ cmpInput.kind = "endpoint_stats"
    /\ Compared("endpoint_stats", compare_endpoint_stats(cmpInput.dfs, cmpInput.names))

CompareAggregateStats ==
    /\ phase = "ready"
    /\ cmpInput.kind = "aggregate_summary"
    /\ Compared("aggregate_summary", compare_aggregate_stats(cmpInput.dfs, cmpInput.names))

CompareErrors ==
    /\ phase = "ready"
    /\ cmpInput.kind = "errors"
    /\ Compared("errors", compare_errors(cmpInput.df1, cmpInput.df2))

NextCompare == CompareEndpointStats \/ CompareAggregateStats \/ CompareErrors

SpecCompare == InitCompare /\ [][NextCompare]_vars

ErrorPairs(df) ==
    { <<df.rows[i]["Endpoint"], df.rows[i]["Error"]>> : i \in 1..Len(df.rows) }

ErrorEndpoints(df) == { df.rows[i]["Endpoint"] : i \in 1..Len(df.rows) }

\* C9: compare_errors yields a row for every (endpoint, error description) pair of
\* the union of the two error tables, and a pair whose endpoint has no data in one
\* report has count 0 and 0.00% for that report (both tables having rows).
C9_UnionOfErrorPairs ==
    (phase = "compared" /\ cmpKind = "errors"
       /\ cmpInput.df1 \in CountedErrorTables /\ Len(cmpInput.df1.rows) > 0
       /\ cmpInput.df2 \in CountedErrorTables /\ Len(cmpInput.df2.rows) > 0) =>
        \A pair \in ErrorPairs(cmpInput.df1) \cup ErrorPairs(cmpInput.df2) :
            /\ outcome = "returned"
            /\ \E i \in 1..Len(cmpResult.rows) :
                  LET row == cmpResult.rows[i]
                  IN  /\ row["Endpoint"].n = pair[1]
                      /\ row["Error Description"].n = pair[2]
                      /\ pair[1] \notin ErrorEndpoints(cmpInput.df1) =>
                            row["Report 1 Count"].n = 0 /\ row["Report 1 %"].n = 0
                      /\ pair[1] \notin ErrorEndpoints(cmpInput.df2) =>
                            row["Report 2 Count"].n = 0 /\ row["Report 2 %"].n = 0

\* C10: compare_endpoint_stats, compare_aggregate_stats and compare_errors return a
\* table, possibly empty, and never raise, whatever tables and names they are given.
C10_ComparisonNeverRaises == phase = "compared" => outcome = "returned"

\* C11: compare_endpoint_stats and compare_aggregate_stats return the empty table,
\* without raising and without any partial row or column, when the number of tables
\* differs from the number of names, when there are no inputs, and when some input
\* table is absent or empty.
C11_RejectedInputsGiveEmpty ==
    (/\ phase = "compared"
     /\ cmpKind \in {"endpoint_stats", "aggregate_summary"}
     /\ \/ Len(cmpInput.dfs) # Len(cmpInput.names)
        \/ Len(cmpInput.dfs) = 0
        \/ \E i \in 1..Len(cmpInput.dfs) :
              \/ cmpInput.dfs[i].isNone
              \/ Len(cmpInput.dfs[i].rows) = 0) =>
        /\ outcome = "returned"
        /\ ~cmpResult.isNone
        /\ cmpResult.columns = <<>>
        /\ cmpResult.rows = <<>>

\* a comparison of as many names as tables, one of the tables being absent or empty
C11_Witness ==
    /\ phase = "compared"
    /\ cmpKind \in {"endpoint_stats", "aggregate_summary"}
    /\ Len(cmpInput.dfs) = 2 /\ Len(cmpInput.names) = 2
    /\ \E i, j \in 1..2 :
          /\ cmpInput.dfs[i].isNone \/ Len(cmpInput.dfs[i].rows) = 0
          /\ ~cmpInput.dfs[j].isNone /\ Len(cmpInput.dfs[j].rows) > 0
    /\ cmpResult = EmptyDataFrame

\* the comparison under way had its inputs accepted and returned a table
ComparedTable(kind) ==
    /\ phase = "compared" /\ cmpKind = kind /\ outcome = "returned"
    /\ Len(cmpInput.dfs) > 0
    /\ Len(cmpInput.dfs) = Len(cmpInput.names)
    /\ \A i \in 1..Len(cmpInput.dfs) :
          ~cmpInput.dfs[i].isNone /\ Len(cmpInput.dfs[i].rows) > 0

\* the labels of the rows of an endpoint comparison, in row order
ComparedLabels == [i \in 1..Len(cmpResult.rows) |-> cmpResult.rows[i]["Endpoint"].n]

\* the first report that has the label, and the label's row in a report
FirstReportWith(l) ==
    CHOOSE r \in 1..Len(cmpInput.dfs) :
        /\ l \in Range(RowLabels(cmpInput.dfs[r]))
        /\ \A q \in 1..(r - 1) : l \notin Range(RowLabels(cmpInput.dfs[q]))

PositionIn(df, l) ==
    CHOOSE i \in 1..Len(df.rows) :
        /\ df.rows[i]["Label"] = l
        /\ \A j \in 1..(i - 1) : df.rows[j]["Label"] # l

\* C12: the rows of a returned endpoint comparison are the union of the labels of
\* the input reports, one row per distinct label, ordered by the first report that
\* has the label and, within that report, by the label's position in it.
C12_LabelUnionOrder ==
    ComparedTable("endpoint_stats") =>
        LET labels == ComparedLabels
        IN  /\ Range(labels) =
                  UNION { Range(RowLabels(cmpInput.dfs[r])) : r \in 1..Len(cmpInput.dfs) }
            /\ \A i, j \in 1..Len(labels) : i # j => labels[i] # labels[j]
            /\ \A i, j \in 1..Len(labels) :
                  i < j =>
                    LET ri == FirstReportWith(labels[i])
                        rj == FirstReportWith(labels[j])
                    IN  \/ ri < rj
                        \/ /\ ri = rj
                           /\ PositionIn(cmpInput.dfs[ri], labels[i])
                                < PositionIn(cmpInput.dfs[ri], labels[j])

\* two reports that share a label and each have a label of their own
C12_Witness ==
    /\ ComparedTable("endpoint_stats")
    /\ Len(cmpInput.dfs) = 2
    /\ \E a, b, c \in Range(ComparedLabels) :
          /\ a \in Range(RowLabels(cmpInput.dfs[1])) /\ a \in Range(RowLabels(cmpInput.dfs[2]))
          /\ b \in Range(RowLabels(cmpInput.dfs[1])) /\ b \notin Range(RowLabels(cmpInput.dfs[2]))
          /\ c \notin Range(RowLabels(cmpInput.dfs[1])) /\ c \in Range(RowLabels(cmpInput.dfs[2]))

\* the display names of the 8 metrics of the endpoint comparison
MetricDisplayNames == [k \in 1..Len(EndpointMetrics) |-> EndpointMetrics[k][2]]

\* C13: for N reports with N names a returned endpoint comparison has, besides the
\* Endpoint column, one column per metric and report, 8 * N in all, named
\* "<metric> (<report name>)"; every label of the union has a row, and the cell of a
\* report that does not have the row's label is blank.
C13_ColumnPerMetricAndReport ==
    ComparedTable("endpoint_stats") =>
        LET n == Len(cmpInput.dfs)
        IN  /\ Len(cmpResult.columns) = 1 + Len(MetricDisplayNames) * n
            /\ \A k \in 1..Len(MetricDisplayNames), r \in 1..n :
                  ComparisonColumn(MetricDisplayNames[k], cmpInput.names[r])
                      \in Range(cmpResult.columns)
            /\ \A r \in 1..n : Range(RowLabels(cmpInput.dfs[r])) \subseteq Range(ComparedLabels)
            /\ \A i \in 1..Len(cmpResult.rows), k \in 1..Len(MetricDisplayNames), r \in 1..n :
                  ComparedLabels[i] \notin Range(RowLabels(cmpInput.dfs[r])) =>
                      cmpResult.rows[i][ComparisonColumn(MetricDisplayNames[k],
                                                          cmpInput.names[r])] = BlankCell

\* the metric names of the rows of an aggregate comparison, in row order
ComparedMetrics == [i \in 1..Len(cmpResult.rows) |-> cmpResult.rows[i]["Metric"].n]

\* the metrics an aggregate table has a row for
MetricsOf(df) == { df.rows[i]["Metric"] : i \in 1..Len(df.rows) }

\* the last report given a name: its value is the one the name's column shows
LastNamed(name) ==
    CHOOSE r \in 1..Len(cmpInput.names) :
        /\ cmpInput.names[r] = name
        /\ \A q \in (r + 1)..Len(cmpInput.names) : cmpInput.names[q] # name

----------------------------------------------------------------------------
(* Parsing a report whose dashboard.js is found: the error table *)

MaxItems == 2

\* records of the top5ErrorsBySamplerTable: [Label, #Samples, #Errors, Error1, #Err1]
TopErrorItems == {
    <<Str_GET_a, 4, 1, Str_Timeout, 1>>,
    <<Str_GET_a, 4, 1, Str_Refused, 1>>,
    <<Str_GET_a, 4, 1, <<>>, 1>>,
    <<Str_GET_a, 4, 0, <<>>, 0>>,
    <<Str_DELETE_c, 4, 2, Str_Refused, 2>>,
    <<Str_GET_a, 4, 1, Str_Timeout>> }

\* dashboard.js: not found, without the table, with a literal that does not
\* parse, or with the table's items
Dashboards ==
    { AbsentDashboard,
      [exists |-> TRUE, top5 |-> "nomatch", items |-> <<>>],
      [exists |-> TRUE, top5 |-> "invalid", items |-> <<>>] }
    \cup { [exists |-> TRUE, top5 |-> "items", items |-> its] :
             its \in SeqsUpTo(TopErrorItems, MaxItems) }

ErrorPayloads == {
    << [label |-> Str_GET_a, data |-> RecA] >>,
    << [label |-> Str_GET_a, data |-> RecA], [label |-> Str_DELETE_c, data |-> RecA] >>,
    << [label |-> Str_Login, data |-> RecA], [label |-> Str_GET_a, data |-> RecB] >>,
    << [label |-> Str_Login, data |-> RecA], [label |-> Str_DELETE_c, data |-> RecA] >>,
    << [label |-> Str_Total, data |-> RecA], [label |-> Str_GET_a, data |-> RecA] >>,
    << [label |-> Str_total, data |-> RecA], [label |-> Str_GET, data |-> RecB] >> }

InitErrors ==
    /\ statsFile \in { [exists |-> TRUE, payload |-> p] : p \in ErrorPayloads }
    /\ dashboardJs \in Dashboards
    /\ phase = "ready"
    /\ outcome = "none"
    /\ exc = ""
    /\ tables = NoTables
    /\ firstTables = NoTables
    /\ firstOutcome = "none"
    /\ totalStats = NotCalculated
    /\ removed = <<>>
    /\ InitOther

NextErrors == ParseJmeterTables

SpecErrors == InitErrors /\ [][NextErrors]_vars

\* the labels of the payload that are to have an error row
LabelsWithErrors ==
    { statsFile.payload[i].label : i \in
        { j \in 1..Len(statsFile.payload) :
            /\ HttpVerbPrefixed(statsFile.payload[j].label)
            /\ ~IsAggregateLabel(statsFile.payload[j].label)
            /\ "errorCount" \in DOMAIN statsFile.payload[j].data
            /\ statsFile.payload[j].data.errorCount > 0 } }

\* C17: the error table returned by parse has exactly one row for every label of
\* the payload that is HTTP-verb-prefixed, is not the aggregate label and has
\* errorCount > 0, no row for any other label, and is absent when no label qualifies.
C17_ErrorRowsPerLabel ==
    (Parsed /\ outcome = "returned" /\ statsFile.exists) =>
        LET errors == tables["errors"]
        IN  /\ errors.isNone <=> LabelsWithErrors = {}
            /\ { errors.rows[i]["Endpoint"] : i \in 1..Len(errors.rows) } = LabelsWithErrors
            /\ \A i, j \in 1..Len(errors.rows) :
                  i # j => errors.rows[i]["Endpoint"] # errors.rows[j]["Endpoint"]

\* a payload with a label that has errors and is not HTTP-verb-prefixed, next to
\* a label that has a row
C17_Witness ==
    /\ Parsed /\ outcome = "returned"
    /\ Len(tables["errors"].rows) = 1
    /\ \E i \in 1..Len(statsFile.payload) :
          /\ ~HttpVerbPrefixed(statsFile.payload[i].label)
          /\ ~IsAggregateLabel(statsFile.payload[i].label)
          /\ statsFile.payload[i].data.errorCount > 0

\* the records of the secondary table for a label, in the order they are listed; a
\* record is a positional list [label, sampleCount, errorCount, error1Description,
\* error1Count, ...]
RecordsFor(label) ==
    IF dashboardJs.exists /\ dashboardJs.top5 = "items"
    THEN SelectSeq(dashboardJs.items, LAMBDA data : Len(data) >= 5 /\ data[1] = label)
    ELSE <<>>

\* the first description listed for a label, "Unknown Error" when there is none
FirstDescription(label) ==
    LET records == RecordsFor(label)
    IN  IF records = <<>> THEN Str_Unknown_Error
        ELSE IF records[1][4] = <<>> THEN Str_Unknown_Error
        ELSE records[1][4]

\* C18: the description of each error row is the first description listed for the
\* row's label in the secondary top-errors-by-sampler table (the first record for
\* the label, positional field 3), and is "Unknown Error" when the table is
\* missing, fails to parse, has no record for the label, or gives an empty string.
C18_FirstDescription ==
    (Parsed /\ outcome = "returned" /\ ~tables["errors"].isNone) =>
        \A i \in 1..Len(tables["errors"].rows) :
            tables["errors"].rows[i]["Error"]
                = FirstDescription(tables["errors"].rows[i]["Endpoint"])

----------------------------------------------------------------------------
(* Synthesizing the aggregate of a payload that has no "Total" entry *)

InitTotals ==
    /\ statsFile \in { [exists |-> TRUE, payload |-> p] :
                          p \in { q \in Payloads(MaxEntries) : ~HasLabel(q, Str_Total) } }
    /\ dashboardJs = AbsentDashboard
    /\ phase = "ready"
    /\ outcome = "none"
    /\ exc = ""
    /\ tables = NoTables
    /\ firstTables = NoTables
    /\ firstOutcome = "none"
    /\ totalStats = NotCalculated
    /\ removed = <<>>
    /\ InitOther

CalculateTotalStatistics ==
    /\ phase = "ready"
    /\ totalStats' = calculate_total_statistics(statsFile.payload)
    /\ outcome' = IF totalStats'.status = "raise" THEN "raised" ELSE "returned"
    /\ exc' = totalStats'.exc
    /\ phase' = "calculated"
    /\ UNCHANGED <<statsFile, dashboardJs, tables, firstTables, firstOutcome, removed,
                   extractVars, compareVars, appVars>>

NextTotals == CalculateTotalStatistics

SpecTotals == InitTotals /\ [][NextTotals]_vars

\* calculate_total_statistics returned an aggregate
Synthesized == phase = "calculated" /\ totalStats.status = "ok"

\* the data of the per-endpoint entries: those whose label is not the aggregate's
EndpointData ==
    LET es == SelectSeq(statsFile.payload, LAMBDA e : ~IsAggregateLabel(e.label))
    IN  [i \in 1..Len(es) |-> es[i].data]

\* the values a field has in a sequence of records, and their sum with 0 for a
\* record without the field
ValuesOf(ds, f) == { ds[i][f] : i \in { j \in 1..Len(ds) : f \in DOMAIN ds[j] } }

RECURSIVE TotalOfField(_, _)
TotalOfField(ds, f) ==
    IF ds = <<>> THEN 0
    ELSE (IF f \in DOMAIN ds[1] THEN ds[1][f] ELSE 0) + TotalOfField(Tail(ds), f)

RECURSIVE WeightedMeans(_)
WeightedMeans(ds) ==
    IF ds = <<>> THEN 0
    ELSE (IF {"meanResTime", "sampleCount"} \subseteq DOMAIN ds[1]
          THEN ds[1].meanResTime * ds[1].sampleCount ELSE 0) + WeightedMeans(Tail(ds))

Least(S) == IF S = {} THEN 0 ELSE CHOOSE m \in S : \A x \in S : m <= x
Greatest(S) == IF S = {} THEN 0 ELSE CHOOSE m \in S : \A x \in S : m >= x

\* C19: the synthesized aggregate of a payload without aggregate entry has
\* sampleCount and errorCount equal to the sums over the non-aggregate entries,
\* meanResTime equal to the sample-count-weighted average of their means, minResTime
\* and maxResTime equal to their minimum and maximum, and throughput equal to the
\* total samples divided by the maximum response time in seconds (values to 2
\* decimals, a field an entry lacks counting for nothing).
C19_SynthesizedSums ==
    Synthesized =>
        LET ds == EndpointData
            samples == TotalOfField(ds, "sampleCount")
            val == totalStats.val
        IN  /\ val.sampleCount = samples
            /\ val.errorCount = TotalOfField(ds, "errorCount")
            /\ val.meanResTime = 10 * RoundDiv(WeightedMeans(ds), 10 * samples)
            /\ val.minResTime = Round2(Least(ValuesOf(ds, "minResTime")))
            /\ val.maxResTime = Round2(Greatest(ValuesOf(ds, "maxResTime")))
            /\ val.throughput =
                  10 * RoundDiv(samples * 100000000, Greatest(ValuesOf(ds, "maxResTime")))

\* an aggregate synthesized from two endpoints with different sample counts and means
C19_Witness ==
    /\ Synthesized
    /\ Len(EndpointData) >= 2
    /\ \E i, j \in 1..Len(EndpointData) :
          /\ {"sampleCount", "meanResTime"} \subseteq DOMAIN EndpointData[i]
          /\ {"sampleCount", "meanResTime"} \subseteq DOMAIN EndpointData[j]
          /\ EndpointData[i].sampleCount # EndpointData[j].sampleCount
          /\ EndpointData[i].meanResTime # EndpointData[j].meanResTime

\* the raw per-sample response times the endpoints supply
RECURSIVE RawTimes(_)
RawTimes(ds) ==
    IF ds = <<>> THEN <<>>
    ELSE (IF "rawResponses" \in DOMAIN ds[1] THEN ds[1].rawResponses ELSE <<>>)
           \o RawTimes(Tail(ds))

\* v is the element of rank k (0-based) of the sorted raw times
HasRank(raw, v, k) ==
    /\ v \in Range(raw)
    /\ Cardinality({ i \in 1..Len(raw) : raw[i] < v }) <= k
    /\ Cardinality({ i \in 1..Len(raw) : raw[i] <= v }) > k

\* the synthesized percentile is the p-th percentile of the raw times when there
\* are any, and otherwise the greatest value the endpoints report in field f
PercentileFromEndpoints(value, p, f) ==
    LET ds == EndpointData
        raw == RawTimes(ds)
    IN  IF Len(raw) > 0
        THEN \E v \in Range(raw) :
                 HasRank(raw, v, (Len(raw) * p) \div 100) /\ value = Round2(v)
        ELSE value = Round2(Greatest(ValuesOf(ds, f)))

\* C20: the 90th/95th/99th percentiles of the synthesized aggregate are taken from
\* the sorted raw per-sample response times when an endpoint supplies them, and
\* otherwise each equals the maximum of the corresponding reported percentile over
\* the per-endpoint (non-aggregate) entries: never below an endpoint's reported
\* percentile, never influenced by an entry that is itself an aggregate.
C20_SynthesizedPercentiles ==
    Synthesized =>
        /\ PercentileFromEndpoints(totalStats.val.pct1ResTime, 90, "pct1ResTime")
        /\ PercentileFromEndpoints(totalStats.val.pct2ResTime, 95, "pct2ResTime")
        /\ PercentileFromEndpoints(totalStats.val.pct3ResTime, 99, "pct3ResTime")

----------------------------------------------------------------------------
(* Properties of the rows of compare_errors *)

\* the rows a report's error table has for an endpoint
RowsOfEndpoint(df, endpoint) == SelectSeq(df.rows, LAMBDA r : r["Endpoint"] = endpoint)

\* the count a report gives for an (endpoint, error description) pair, 0 without one
ReportedCount(df, endpoint, error) ==
    LET hits == SelectSeq(RowsOfEndpoint(df, endpoint), LAMBDA r : r["Error"] = error)
    IN  IF hits = <<>> \/ "Count" \notin DOMAIN hits[1] THEN 0 ELSE hits[1]["Count"]

\* the total samples a report gives for an endpoint, 0 when it gives none
ReportedTotal(df, endpoint) ==
    LET rows == RowsOfEndpoint(df, endpoint)
    IN  IF rows = <<>> \/ "Total" \notin DOMAIN rows[1] THEN 0 ELSE rows[1]["Total"]

\* count / total * 100 in hundredths of a percent, to the nearest
PercentOf(count, total) == IF total = 0 THEN 0 ELSE RoundDiv(count * 10000, total)

\* (c2 / t2 - c1 / t1) * 100 in hundredths of a percent, a ratio of total 0 being 0
PercentDifference(c1, t1, c2, t2) ==
    IF t1 = 0 /\ t2 = 0 THEN 0
    ELSE IF t1 = 0 THEN RoundDiv(c2 * 10000, t2)
    ELSE IF t2 = 0 THEN RoundDiv(0 - c1 * 10000, t1)
    ELSE RoundDiv(c2 * 10000 * t1 - c1 * 10000 * t2, t1 * t2)

\* C21: in every row of compare_errors each report's percentage is the report's
\* count divided by the endpoint's total samples times 100, and 0 when that total is
\* 0; the count difference is report 2's count minus report 1's; the percentage
\* difference is report 2's percentage minus report 1's (shown to 2 decimals).
C21_ErrorPercentages ==
    (phase = "compared" /\ cmpKind = "errors" /\ outcome = "returned") =>
        \A i \in 1..Len(cmpResult.rows) :
            LET row == cmpResult.rows[i]
                endpoint == row["Endpoint"].n
                error == row["Error Description"].n
                c1 == ReportedCount(cmpInput.df1, endpoint, error)
                c2 == ReportedCount(cmpInput.df2, endpoint, error)
                t1 == ReportedTotal(cmpInput.df1, endpoint)
                t2 == ReportedTotal(cmpInput.df2, endpoint)
            IN  /\ row["Report 1 Count"] = IntCell(c1)
                /\ row["Report 2 Count"] = IntCell(c2)
                /\ row["Report 1 %"] = PercentCell(PercentOf(c1, t1))
                /\ row["Report 2 %"] = PercentCell(PercentOf(c2, t2))
                /\ row["Count Difference"] = IntCell(c2 - c1)
                /\ row["% Difference"] = PercentCell(PercentDifference(c1, t1, c2, t2))

\* a row for an endpoint whose total is 0 in report 1 and positive in report 2
C21_Witness ==
    /\ phase = "compared" /\ cmpKind = "errors" /\ outcome = "returned"
    /\ \E i \in 1..Len(cmpResult.rows) :
          LET row == cmpResult.rows[i]
          IN  /\ ReportedTotal(cmpInput.df1, row["Endpoint"].n) = 0
              /\ row["Report 1 Count"].n > 0
              /\ row["Report 1 %"].n = 0
              /\ row["Report 2 %"].n > 0
              /\ row["Count Difference"].n # 0

\* the error tables that parse_jmeter_tables produced for the compared reports
ParsedErrorTables == { t["errors"] : t \in ParsedReports } \ { NoneTable }

\* the number of errors a parsed error table reports for an endpoint
ErrorsReported(df, endpoint) == RowsOfEndpoint(df, endpoint)[1]["Error #"]

\* C22: the error table of parse_jmeter_tables is a usable input of compare_errors:
\* for two parsed reports that both have errors on a common HTTP endpoint,
\* compare_errors returns a non-empty comparison with a row for that endpoint
\* carrying the two reports' error counts.
C22_ParsedErrorsComparable ==
    (/\ phase = "compared" /\ cmpKind = "errors"
     /\ cmpInput.df1 \in ParsedErrorTables
     /\ cmpInput.df2 \in ParsedErrorTables) =>
        \A endpoint \in ErrorEndpoints(cmpInput.df1) \cap ErrorEndpoints(cmpInput.df2) :
            /\ outcome = "returned"
            /\ Len(cmpResult.rows) > 0
            /\ \E i \in 1..Len(cmpResult.rows) :
                  /\ cmpResult.rows[i]["Endpoint"].n = endpoint
                  /\ cmpResult.rows[i]["Report 1 Count"].n
                        = ErrorsReported(cmpInput.df1, endpoint)
                  /\ cmpResult.rows[i]["Report 2 Count"].n
                        = ErrorsReported(cmpInput.df2, endpoint)

----------------------------------------------------------------------------
(* extract_zip and the parse of what it located *)

MaxUploads == 2

\* the two files of a report directory that the parse reads
EmptyDir == [stats |-> AbsentFile, dashboard |-> AbsentDashboard]

\* temp_jmeter_reports/persistent before anything was extracted; "root" is the
\* directory itself, "report" a folder of that name below it
EmptyPersistent == [root |-> EmptyDir, report |-> EmptyDir]

\* shutil.copy2 of one file of the archive over the persistent copy: a file the
\* archive does not have leaves what is there
CopyOver(old, new) == IF new.exists THEN new ELSE old

\* the walk of lines 87-101: every file of the archive lands below persistent at
\* its relative path, the directory is never emptied first
CopyTree(dir, zip) ==
    [dir EXCEPT ![zip.dir] = [stats |-> CopyOver(@.stats, zip.stats),
                              dashboard |-> CopyOver(@.dashboard, zip.dashboard)]]

\* extract_zip: raises when the archive has no index.html, else copies the tree
\* and returns the index path below persistent
extract_zip(dir, zip) ==
    IF ~zip.index THEN [outcome |-> "raised", exc |-> "Exception", dir |-> dir]
    ELSE [outcome |-> "returned", exc |-> "", dir |-> CopyTree(dir, zip)]

\* the dashboard.js that create_errors_table opens: '__file__' is never a key of
\* stats_data, the first of possible_paths is outside the working directory, the
\* second is content/js/dashboard.js directly below persistent
FoundDashboard(dir) == dir.root.dashboard

\* parse_jmeter_tables(index_path): statistics.json next to the index.html
ParseLocated(dir, index_dir) == parse_jmeter_tables(dir[index_dir].stats, FoundDashboard(dir))

ReportStats ==
    { AbsentFile,
      [exists |-> TRUE, payload |-> << [label |-> Str_GET_a, data |-> RecA] >>],
      [exists |-> TRUE, payload |-> << [label |-> Str_DELETE_c, data |-> RecA],
                                       [label |-> Str_GET_a, data |-> RecB] >>] }

ReportDashboards ==
    { AbsentDashboard,
      [exists |-> TRUE, top5 |-> "items", items |-> << <<Str_GET_a, 4, 1, Str_Timeout, 1>> >>],
      [exists |-> TRUE, top5 |-> "items", items |-> << <<Str_GET_a, 4, 1, Str_Refused, 1>>,
                                                      <<Str_DELETE_c, 4, 1, Str_Timeout, 1>> >>] }

\* uploaded archives: the report at the top of the archive or inside a folder
Zips ==
    { [index |-> TRUE, dir |-> d, stats |-> st, dashboard |-> db] :
        d \in {"root", "report"}, st \in ReportStats, db \in ReportDashboards }
    \cup { [index |-> FALSE, dir |-> "root", stats |-> AbsentFile, dashboard |-> AbsentDashboard] }

\* the parse, extraction and comparison layers at rest
IdleCore ==
    /\ statsFile = AbsentFile /\ dashboardJs = AbsentDashboard
    /\ phase = "ready" /\ outcome = "none" /\ exc = ""
    /\ tables = NoTables /\ firstTables = NoTables /\ firstOutcome = "none"
    /\ totalStats = NotCalculated /\ removed = <<>>
    /\ jsSource = <<>> /\ tableId = "" /\ extracted = NoneValue
    /\ cmpInput = <<>> /\ cmpKind = "" /\ cmpResult = NoneTable

InitReports ==
    /\ uploads = <<>>
    /\ persistent = EmptyPersistent
    /\ parsedUpload = 0
    /\ IdleCore
    /\ IdleUi /\ IdleJsData /\ IdleClean

\* one call of extract_zip (app.py lines 140 and 222)
ExtractZip ==
    /\ Len(uploads) < MaxUploads
    /\ \E zip \in Zips :
         LET res == extract_zip(persistent, zip)
         IN  /\ uploads' = Append(uploads, zip)
             /\ persistent' = res.dir
             /\ outcome' = res.outcome
             /\ exc' = res.exc
    /\ phase' = "located"
    /\ UNCHANGED <<parsedUpload, statsFile, dashboardJs, tables, firstTables, firstOutcome,
                   totalStats, removed, extractVars, compareVars, uiVars, tables_data, cleanVars>>

\* one call of parse_jmeter_tables on an index path that extract_zip returned
\* (app.py lines 143 and 223); another session of the application may have
\* extracted its own upload in between
ParseUpload ==
    /\ \E i \in 1..Len(uploads) :
         /\ uploads[i].index
         /\ LET res == ParseLocated(persistent, uploads[i].dir)
            IN  /\ outcome' = res.outcome
                /\ exc' = res.exc
                /\ tables' = res.tables
         /\ parsedUpload' = i
    /\ phase' = "parsed"
    /\ UNCHANGED <<uploads, persistent, statsFile, dashboardJs, firstTables, firstOutcome,
                   totalStats, removed, extractVars, compareVars, uiVars, tables_data, cleanVars>>

NextReports == ExtractZip \/ ParseUpload

SpecReports == InitReports /\ [][NextReports]_vars

\* the table set of an upload parsed with nothing else in the persistent directory
ParsedAlone(zip) == ParseLocated(extract_zip(EmptyPersistent, zip).dir, zip.dir)

\* C23: the table set obtained for a report depends only on the report's own
\* files: it is what the parse of that report alone gives, whichever other
\* reports were extracted before it or between its extraction and its parse
C23_ParseOfOwnFiles ==
    (phase = "parsed" /\ parsedUpload > 0) =>
        LET alone == ParsedAlone(uploads[parsedUpload])
        IN  /\ outcome = alone.outcome
            /\ tables = alone.tables

----------------------------------------------------------------------------
(* The comparison page of the application: uploads, report names, comparison *)

MaxFiles == 3

\* the zip files the user has at hand, called by their file stem
Str_v1 == <<118, 49>>
Files == { <<97>>, <<98>>, <<99>> }

\* what each of them holds
ZipOf(file) ==
    [index |-> TRUE,
     dir |-> IF file = <<99>> THEN "report" ELSE "root",
     stats |-> [exists |-> TRUE,
                payload |-> << [label |-> Str_GET_a,
                                data |-> IF file = <<98>> THEN RecB ELSE RecA] >>],
     dashboard |-> IF file = <<97>>
                   THEN [exists |-> TRUE, top5 |-> "items",
                         items |-> << <<Str_GET_a, 4, 1, Str_Timeout, 1>> >>]
                   ELSE AbsentDashboard]

\* the text inputs of the names form: the default is the file stem (lines 191-192),
\* the user may type another name
NameChoices(reports) ==
    { names \in [1..Len(reports) -> Files \cup {Str_v1}] :
        \A i \in 1..Len(reports) : names[i] \in {reports[i], Str_v1} }

RemoveAt(s, i) == [k \in 1..(Len(s) - 1) |-> IF k < i THEN s[k] ELSE s[k + 1]]

\* line 187: the names form is shown
FormShown ==
    /\ Len(uploaded_reports) > 1
    /\ ~state_names_confirmed

\* lines 202-206: the confirmed page is shown; the loop of lines 205-206 indexes
\* uploaded_reports with the positions of report_names and raises IndexError,
\* ending the script run, when report_names is the longer list
ConfirmedShown ==
    /\ Len(uploaded_reports) > 1
    /\ state_names_confirmed
    /\ Len(state_report_names) <= Len(uploaded_reports)

RECURSIVE ExtractAll(_, _)
\* the loop of lines 221-224 as far as the persistent directory goes
ExtractAll(dir, reports) ==
    IF reports = <<>> THEN dir
    ELSE ExtractAll(extract_zip(dir, ZipOf(reports[1])).dir, Tail(reports))

InitUi ==
    /\ IdleUi
    /\ uploads = <<>> /\ persistent = EmptyPersistent /\ parsedUpload = 0
    /\ IdleCore
    /\ IdleJsData /\ IdleClean

\* the user adds a file to the uploader; the script reruns (line 181)
AddUpload ==
    /\ Len(uploaded_reports) < MaxFiles
    /\ \E file \in Files :
         /\ \A i \in 1..Len(uploaded_reports) : uploaded_reports[i] # file
         /\ uploaded_reports' = Append(uploaded_reports, file)
    /\ UNCHANGED <<state_report_names, state_names_confirmed, confirmedFor, comparison,
                   parseVars, phase, outcome, exc, extractVars, compareVars,
                   reportVars, tables_data, cleanVars>>

\* the user removes a file from the uploader; the script reruns (line 181)
RemoveUpload ==
    /\ \E i \in 1..Len(uploaded_reports) :
         uploaded_reports' = RemoveAt(uploaded_reports, i)
    /\ UNCHANGED <<state_report_names, state_names_confirmed, confirmedFor, comparison,
                   parseVars, phase, outcome, exc, extractVars, compareVars,
                   reportVars, tables_data, cleanVars>>

\* "Confirm Report Names" (lines 194-198)
ConfirmReportNames ==
    /\ FormShown
    /\ \E temp_names \in NameChoices(uploaded_reports) :
         state_report_names' = temp_names
    /\ state_names_confirmed' = TRUE
    /\ confirmedFor' = uploaded_reports
    /\ UNCHANGED <<uploaded_reports, comparison,
                   parseVars, phase, outcome, exc, extractVars, compareVars,
                   reportVars, tables_data, cleanVars>>

\* "Reset" (lines 207-210)
Reset ==
    /\ ConfirmedShown
    /\ state_report_names' = <<>>
    /\ state_names_confirmed' = FALSE
    /\ confirmedFor' = <<>>
    /\ UNCHANGED <<uploaded_reports, comparison,
                   parseVars, phase, outcome, exc, extractVars, compareVars,
                   reportVars, tables_data, cleanVars>>

\* "Compare Reports" (lines 216-238): every uploaded report is extracted and
\* parsed, the tables are compared under report_names
CompareReports ==
    /\ ConfirmedShown
    /\ comparison' = [reports |-> uploaded_reports, names |-> state_report_names]
    /\ persistent' = ExtractAll(persistent, uploaded_reports)
    /\ uploads' = uploads
    /\ parsedUpload' = parsedUpload
    /\ UNCHANGED <<uploaded_reports, state_report_names, state_names_confirmed, confirmedFor,
                   parseVars, phase, outcome, exc, extractVars, compareVars,
                   tables_data, cleanVars>>

NextUi == AddUpload \/ RemoveUpload \/ ConfirmReportNames \/ Reset \/ CompareReports

SpecUi == InitUi /\ [][NextUi]_vars

\* C24: whenever a comparison is run, the confirmed name list is as long as
\* the list of uploaded reports and name i is the name that was confirmed for
\* upload i, whatever uploads, confirmations, upload changes and resets came before
C24_NamesMatchUploads ==
    comparison # <<>> =>
        /\ Len(comparison.names) = Len(comparison.reports)
        /\ \A i \in 1..Len(comparison.reports) :
               /\ i \in DOMAIN confirmedFor
               /\ confirmedFor[i] = comparison.reports[i]

----------------------------------------------------------------------------
(* extract_js_data *)

\* Map of table IDs to our internal names, in the order the loop visits them
table_mappings ==
    << [table_id |-> "statisticsTable", internal_name |-> "endpoint_stats"],
       [table_id |-> "errorsTable", internal_name |-> "errors"],
       [table_id |-> "apdexTable", internal_name |-> "aggregate_summary"] >>

\* variant: an exception of one table ends the loop
Attempted_UntilRaise(js_content, i) ==
    \A j \in 1..(i - 1) :
        extract_table_data(js_content, table_mappings[j].table_id).outcome # "raised"

\* the try of lines 132-138 is inside the loop: each table is tried, whatever
\* became of the tables before it
Attempted(js_content, i) == TRUE

\* "if data:" with data None or a dict
Truthy(data) == ~data.isNone /\ data.members # <<>>

\* line 133-135 for the i-th table: stored unless the call raised or gave a falsy value
Stored(js_content, i) ==
    LET res == extract_table_data(js_content, table_mappings[i].table_id)
    IN  /\ Attempted(js_content, i)
        /\ res.outcome = "returned"
        /\ Truthy(res.val)

extract_js_data(js_content) ==
    LET stored == { i \in 1..Len(table_mappings) : Stored(js_content, i) }
        at(name) == CHOOSE i \in stored : table_mappings[i].internal_name = name
    IN  [name \in { table_mappings[i].internal_name : i \in stored } |->
            extract_table_data(js_content, table_mappings[at(name)].table_id).val.members]

\* object literals of a createTable call: {}, {k: 1}, {'k': 's',}, {"k": undefined},
\* {"k": f(x)}
JsDataLiterals ==
    { [members |-> <<>>, trailing |-> FALSE],
      [members |-> << [key |-> "bare", val |-> "num"] >>, trailing |-> FALSE],
      [members |-> << [key |-> "sq", val |-> "sqstr"] >>, trailing |-> TRUE],
      [members |-> << [key |-> "dq", val |-> "undefined"] >>, trailing |-> FALSE],
      [members |-> << [key |-> "dq", val |-> "expr"] >>, trailing |-> FALSE] }

\* dashboard.js texts with createTable calls for some of the three tables
JsDataSources ==
    UNION { { src \in [1..n -> [table : TableIds, literal : JsDataLiterals]] :
                \A i, j \in 1..n : i # j => src[i].table # src[j].table } :
            n \in 0..Len(table_mappings) }

InitJsData ==
    /\ jsSource \in JsDataSources
    /\ tableId = ""
    /\ extracted = NoneValue
    /\ tables_data = <<>>
    /\ statsFile = AbsentFile /\ dashboardJs = AbsentDashboard
    /\ phase = "ready" /\ outcome = "none" /\ exc = ""
    /\ tables = NoTables /\ firstTables = NoTables /\ firstOutcome = "none"
    /\ totalStats = NotCalculated /\ removed = <<>>
    /\ cmpInput = <<>> /\ cmpKind = "" /\ cmpResult = NoneTable
    /\ IdleReports /\ IdleUi /\ IdleClean

\* no exception leaves extract_js_data: the only statements outside the try are the
\* two dictionary literals and the return
ExtractJsData ==
    /\ phase = "ready"
    /\ tables_data' = extract_js_data(jsSource)
    /\ outcome' = "returned"
    /\ exc' = ""
    /\ phase' = "extracted"
    /\ UNCHANGED <<jsSource, tableId, extracted, parseVars, compareVars,
                   reportVars, uiVars, cleanVars>>

NextJsData == ExtractJsData

SpecJsData == InitJsData /\ [][NextJsData]_vars

\* the createTable calls of the source for a table
CallsFor(table_id) == SelectSeq(jsSource, LAMBDA inv : inv.table = table_id)

\* the table has a call in the source and its literal, repaired, is strict JSON
Extractable(table_id) ==
    /\ CallsFor(table_id) # <<>>
    /\ IsJson(clean_json_string(CallsFor(table_id)[1].literal))

ExtractedMembers(table_id) == clean_json_string(CallsFor(table_id)[1].literal).members

\* C25 (as stated): the result holds exactly the tables that can be extracted,
\* each with its own data, and the operation does not raise
C25_ExtractableTablesReturned ==
    phase = "extracted" =>
        /\ outcome = "returned"
        /\ \A i \in 1..Len(table_mappings) :
              LET table_id == table_mappings[i].table_id
                  name == table_mappings[i].internal_name
              IN  /\ name \in DOMAIN tables_data <=> Extractable(table_id)
                  /\ name \in DOMAIN tables_data =>
                         tables_data[name] = ExtractedMembers(table_id)

\* C25 (amended): the result holds exactly the tables that can be extracted to
\* a non-empty object, each with its own data whatever became of the other
\* tables, and the operation does not raise
C25_NonEmptyTablesReturned ==
    phase = "extracted" =>
        /\ outcome = "returned"
        /\ \A i \in 1..Len(table_mappings) :
              LET table_id == table_mappings[i].table_id
                  name == table_mappings[i].internal_name
              IN  /\ name \in DOMAIN tables_data <=>
                         (Extractable(table_id) /\ ExtractedMembers(table_id) # <<>>)
                  /\ name \in DOMAIN tables_data =>
                         tables_data[name] = ExtractedMembers(table_id)

\* the first table is missing and its extraction raises, the second is
\* unparsable, the third is returned
C25_Witness ==
    /\ phase = "extracted"
    /\ CallsFor("statisticsTable") = <<>>
    /\ extract_table_data(jsSource, "statisticsTable").outcome = "raised"
    /\ CallsFor("errorsTable") # <<>> /\ ~Extractable("errorsTable")
    /\ DOMAIN tables_data = {"aggregate_summary"}

----------------------------------------------------------------------------
(* clean_json_string on the text of a literal: the substitutions of lines 67-84 *)

IsSpace(c) == c \in {9, 10, 11, 12, 13, 32}                         \* \s
IsWordChar(c) == c \in (48..57) \cup (65..90) \cup {95} \cup (97..122)  \* \w

Chr_Quote == 34         \* "
Chr_Apostrophe == 39    \* '
Chr_Comma == 44
Chr_Colon == 58
Chr_Backslash == 92
Txt_undefined == <<117, 110, 100, 101, 102, 105, 110, 101, 100>>
Txt_null == <<110, 117, 108, 108>>
Txt_true == <<116, 114, 117, 101>>
Txt_false == <<102, 97, 108, 115, 101>>

RECURSIVE SkipSpaces(_, _)
\* where \s* started at i ends
SkipSpaces(s, i) == IF i <= Len(s) /\ IsSpace(s[i]) THEN SkipSpaces(s, i + 1) ELSE i

RECURSIVE SkipWord(_, _)
\* where \w* started at i ends
SkipWord(s, i) == IF i <= Len(s) /\ IsWordChar(s[i]) THEN SkipWord(s, i + 1) ELSE i

RECURSIVE SkipToApostrophe(_, _)
\* where [^']* started at i ends
SkipToApostrophe(s, i) ==
    IF i <= Len(s) /\ s[i] # Chr_Apostrophe THEN SkipToApostrophe(s, i + 1) ELSE i

At(s, i) == IF i \in 1..Len(s) THEN s[i] ELSE 0

\* the text has word at i, and a word boundary after it
WordAt(s, i, word) ==
    /\ i + Len(word) - 1 <= Len(s)
    /\ SubSeq(s, i, i + Len(word) - 1) = word
    /\ ~IsWordChar(At(s, i + Len(word)))

RECURSIVE RemoveTrailingCommas(_, _)
\* re.sub(r',(\s*[}\]])', r'\1', json_str), from position i on
RemoveTrailingCommas(s, i) ==
    IF i > Len(s) THEN <<>>
    ELSE LET j == SkipSpaces(s, i + 1)
         IN  IF s[i] = Chr_Comma /\ At(s, j) \in {125, 93}
             THEN SubSeq(s, i + 1, j) \o RemoveTrailingCommas(s, j + 1)
             ELSE <<s[i]>> \o RemoveTrailingCommas(s, i + 1)

RECURSIVE QuotePropertyNames(_, _)
\* re.sub(r'([{,]\s*)(\w+)(\s*:)', r'\1"\2"\3', json_str), from position i on
QuotePropertyNames(s, i) ==
    IF i > Len(s) THEN <<>>
    ELSE LET j == SkipSpaces(s, i + 1)
             k == SkipWord(s, j)
             l == SkipSpaces(s, k)
         IN  IF s[i] \in {123, Chr_Comma} /\ k > j /\ At(s, l) = Chr_Colon
             THEN SubSeq(s, i, j - 1) \o <<Chr_Quote>> \o SubSeq(s, j, k - 1) \o <<Chr_Quote>>
                  \o SubSeq(s, k, l) \o QuotePropertyNames(s, l + 1)
             ELSE <<s[i]>> \o QuotePropertyNames(s, i + 1)

RECURSIVE SingleQuotedKeys(_, _)
\* re.sub(r"'([^']*)':", r'"\1":', json_str), from position i on
SingleQuotedKeys(s, i) ==
    IF i > Len(s) THEN <<>>
    ELSE LET j == SkipToApostrophe(s, i + 1)
         IN  IF s[i] = Chr_Apostrophe /\ At(s, j) = Chr_Apostrophe /\ At(s, j + 1) = Chr_Colon
             THEN <<Chr_Quote>> \o SubSeq(s, i + 1, j - 1) \o <<Chr_Quote, Chr_Colon>>
                  \o SingleQuotedKeys(s, j + 2)
             ELSE <<s[i]>> \o SingleQuotedKeys(s, i + 1)

RECURSIVE SingleQuotedValues(_, _)
\* re.sub(r':\s*\'([^\']*)\'', r':"\1"', json_str), from position i on
SingleQuotedValues(s, i) ==
    IF i > Len(s) THEN <<>>
    ELSE LET j == SkipSpaces(s, i + 1)
             k == SkipToApostrophe(s, j + 1)
         IN  IF s[i] = Chr_Colon /\ At(s, j) = Chr_Apostrophe /\ At(s, k) = Chr_Apostrophe
             THEN <<Chr_Colon, Chr_Quote>> \o SubSeq(s, j + 1, k - 1) \o <<Chr_Quote>>
                  \o SingleQuotedValues(s, k + 1)
             ELSE <<s[i]>> \o SingleQuotedValues(s, i + 1)

RECURSIVE ValueWord(_, _, _, _)
\* re.sub(r':\s*<word>\b', ':<to>', json_str), from position i on: lines 77, 83, 84
ValueWord(s, i, word, to) ==
    IF i > Len(s) THEN <<>>
    ELSE LET j == SkipSpaces(s, i + 1)
         IN  IF s[i] = Chr_Colon /\ WordAt(s, j, word)
             THEN <<Chr_Colon>> \o to \o ValueWord(s, j + Len(word), word, to)
             ELSE <<s[i]>> \o ValueWord(s, i + 1, word, to)

RECURSIVE EscapeBackslashes(_, _)
\* re.sub(r'\\([^"])', r'\\\\\1', json_str), from position i on
EscapeBackslashes(s, i) ==
    IF i > Len(s) THEN <<>>
    ELSE IF s[i] = Chr_Backslash /\ i < Len(s) /\ s[i + 1] # Chr_Quote
         THEN <<Chr_Backslash, Chr_Backslash, s[i + 1]>> \o EscapeBackslashes(s, i + 2)
         ELSE <<s[i]>> \o EscapeBackslashes(s, i + 1)

\* clean_json_string, character by character
CleanJsonText(json_str) ==
    LET s1 == RemoveTrailingCommas(json_str, 1)
        s2 == QuotePropertyNames(s1, 1)
        s3 == SingleQuotedKeys(s2, 1)
        s4 == SingleQuotedValues(s3, 1)
        s5 == ValueWord(s4, 1, Txt_undefined, Txt_null)
        s6 == EscapeBackslashes(s5, 1)
        s7 == ValueWord(s6, 1, Txt_true, Txt_true)
    IN  ValueWord(s7, 1, Txt_false, Txt_false)

----------------------------------------------------------------------------
(* Object literals as text, and the strict JSON of the same object *)

MaxProps == 2

\* a value as JavaScript writes it and as strict JSON writes the same value
SameInBoth(text) == [js |-> text, json |-> text]
DoubleQuoted(contents) == SameInBoth(<<Chr_Quote>> \o contents \o <<Chr_Quote>>)

\* 1   "x"   "x,y"   "x:y"   "q\"q"   "l\n"   "x, y: z"
\* 'x'   undefined   true   [1]   [undefined]   ['x']
JsValues ==
    { SameInBoth(<<49>>),
      DoubleQuoted(<<120>>),
      DoubleQuoted(<<120, 44, 121>>),
      DoubleQuoted(<<120, 58, 121>>),
      DoubleQuoted(<<113, 92, 34, 113>>),
      DoubleQuoted(<<108, 92, 110>>),
      DoubleQuoted(<<120, 44, 32, 121, 58, 32, 122>>),
      [js |-> <<39, 120, 39>>, json |-> <<34, 120, 34>>],
      [js |-> Txt_undefined, json |-> Txt_null],
      SameInBoth(Txt_true),
      SameInBoth(<<91, 49, 93>>),
      [js |-> <<91>> \o Txt_undefined \o <<93>>, json |-> <<91>> \o Txt_null \o <<93>>],
      [js |-> <<91, 39, 120, 39, 93>>, json |-> <<91, 34, 120, 34, 93>>] }

\* the values of the members after the first
LaterValues ==
    { SameInBoth(<<49>>), DoubleQuoted(<<120, 44, 121>>),
      [js |-> Txt_undefined, json |-> Txt_null] }

\* object literals of at most max members; the i-th key is the i-th letter,
\* written "k", k or 'k'; a comma may follow the last member; the text is
\* written with or without a space after each colon and comma
JsLiterals(max) ==
    { [members |-> <<>>, trailing |-> FALSE, spaced |-> FALSE] }
    \cup UNION { { [members |-> ms, trailing |-> t, spaced |-> sp] :
                     ms \in { f \in [1..n -> [key : KeyKinds, val : JsValues]] :
                                \A i \in 2..n : f[i].key = "bare" /\ f[i].val \in LaterValues },
                     t \in BOOLEAN, sp \in BOOLEAN } : n \in 1..max }

KeyName(i) == <<96 + i>>

KeyText(kind, i) ==
    IF kind = "dq" THEN <<Chr_Quote>> \o KeyName(i) \o <<Chr_Quote>>
    ELSE IF kind = "sq" THEN <<Chr_Apostrophe>> \o KeyName(i) \o <<Chr_Apostrophe>>
    ELSE KeyName(i)

Gap(lit) == IF lit.spaced THEN <<32>> ELSE <<>>

RECURSIVE MembersText(_, _, _)
\* the members from the i-th on; js tells which of the two writings
MembersText(lit, i, js) ==
    IF i > Len(lit.members) THEN <<>>
    ELSE LET mem == lit.members[i]
             one == IF js THEN KeyText(mem.key, i) \o <<Chr_Colon>> \o Gap(lit) \o mem.val.js
                    ELSE KeyText("dq", i) \o <<Chr_Colon>> \o Gap(lit) \o mem.val.json
         IN  one \o (IF i < Len(lit.members) THEN <<Chr_Comma>> \o Gap(lit) ELSE <<>>)
                 \o MembersText(lit, i + 1, js)

\* the literal as dashboard.js has it
JsText(lit) ==
    <<123>> \o MembersText(lit, 1, TRUE)
            \o (IF lit.trailing THEN <<Chr_Comma>> \o Gap(lit) ELSE <<>>) \o <<125>>

\* the strict JSON text of the same object
JsonText(lit) == <<123>> \o MembersText(lit, 1, FALSE) \o <<125>>

RECURSIVE Compact(_, _, _)
\* a JSON text without the white space between its tokens
Compact(s, i, inString) ==
    IF i > Len(s) THEN <<>>
    ELSE IF inString
         THEN IF s[i] = Chr_Backslash /\ i < Len(s)
              THEN <<s[i], s[i + 1]>> \o Compact(s, i + 2, TRUE)
              ELSE <<s[i]>> \o Compact(s, i + 1, s[i] # Chr_Quote)
         ELSE IF IsSpace(s[i]) THEN Compact(s, i + 1, FALSE)
              ELSE <<s[i]>> \o Compact(s, i + 1, s[i] = Chr_Quote)

InitClean ==
    /\ literal \in JsLiterals(MaxProps)
    /\ cleaned = <<>>
    /\ IdleCore
    /\ IdleReports /\ IdleUi /\ IdleJsData

CleanJsonString ==
    /\ phase = "ready"
    /\ cleaned' = CleanJsonText(JsText(literal))
    /\ outcome' = "returned"
    /\ phase' = "cleaned"
    /\ UNCHANGED <<literal, exc, parseVars, extractVars, compareVars,
                   reportVars, uiVars, tables_data>>

NextClean == CleanJsonString

SpecClean == InitClean /\ [][NextClean]_vars

\* C26: the cleaned text is strict JSON for the same object: keys double-quoted,
\* no trailing comma, single-quoted strings double-quoted, undefined turned
\* into null, and string values that were valid kept as they were
C26_CleanedIsSameObject ==
    phase = "cleaned" => Compact(cleaned, 1, FALSE) = Compact(JsonText(literal), 1, FALSE)
====
